---- MODULE Spec2Model ----
(***************************************************************************)
(* Model of the MKCP engine: the balance replay engine                     *)
(* (src/src/engine/inventory.ts), the aging/outstanding engine             *)
(* (src/src/engine/financial.ts), the voucher parser                       *)
(* (src/src/parser/transactionParser.ts) and the data store                *)
(* (src/src/store/dataStore.ts).                                           *)
(*                                                                         *)
(* Conventions.  An optional JavaScript value (undefined / null) is a      *)
(* tuple of length 0 or 1: <<>> is "absent", <<x>> is "x".  Quantities and *)
(* amounts are integers (amounts count units of 0.005).  A calendar date   *)
(* "YYYY-MM-DD" is the tuple <<y, m, d>>; "YYYY-MM" is <<y, m>>; string    *)
(* order on such strings is the lexicographic order on the tuples.         *)
(***************************************************************************)
EXTENDS Integers, Sequences, FiniteSets, TLC

VARIABLES
    item,           \* the CanonicalItem under replay
    vouchers,       \* the CanonicalVoucher[] handed to the engines
    nMonths,        \* window length given to computeMonthlyBuckets
    asOfDate,       \* reference date given to computeMonthlyBuckets
    voucherIndex,   \* <<>> or <<index>>: result of buildVoucherIndex
    stock,          \* <<>> or <<n>>: result of getCurrentStock
    stockIndexed,   \* <<>> or <<n>>: result of getCurrentStockIndexed
    buckets,        \* <<>> or <<MonthBucket[]>>: result of computeMonthlyBuckets
    ledgers,        \* ledgerId -> CanonicalLedger, handed to computeOutstandingInvoices
    today,          \* the day computeOutstandingInvoices runs (day number)
    records,        \* <<>> or <<InvoiceRecord[]>>: result of computeOutstandingInvoices
    days,           \* argument of getAgingBucket
    agingBucket,    \* <<>> or <<bucket>>: result of getAgingBucket
    rawVouchers,    \* the raw records parseTransactions loops over
    parsed,         \* <<>> or <<TxParseResult>>: result of parseTransactions
    rawData,        \* data store: <<>> (null) or <<ParsedData>> without overrides
    data,           \* data store: <<>> (null) or <<ParsedData>> with overrides applied
    units,          \* override store: itemId -> UnitOverride
    rates,          \* override store: itemId -> RateOverride
    pendingData,    \* Dashboard: <<>> (null) or <<ParsedData>> awaiting acceptance
    accepts,        \* number of acceptData runs so far
    repeats,        \* consecutive acceptData runs on the present pendingData and store
    rawDocument,    \* the raw document handed to parseMasters / parseTransactions
    masters,        \* <<>> or <<MasterParseResult>>: result of parseMasters
    itemMap,        \* Map<string, CanonicalItem> handed to generatePredictions
    orderType,      \* the voucherType argument of generatePredictions / scorePredictions
    predictions,    \* <<>> or <<PartyOrderPattern[]>>: result of generatePredictions
    newVouchers,    \* the vouchers handed to scorePredictions
    accuracy,       \* <<>> or <<PredictionAccuracy[]>>: result of scorePredictions
    currentDate,    \* new Date().toISOString().slice(0, 10) when generatePredictions runs
    timeZone,       \* the local time zone of the JavaScript runtime
    unitItem,       \* the CanonicalItem handed to toDisplay / fromDisplay
    baseQty,        \* the base quantity, in thousandths
    unitMode,       \* UnitMode: BASE or PKG
    displayed,      \* <<>> or <<value>>: toDisplay(item, baseQty, mode).value, in thousandths
    convertedBack,  \* <<>> or <<base quantity>>: fromDisplay of the displayed value, in thousandths
    roundTrip,      \* <<>> or <<boolean>>: result of roundTripCheck
    existingData,   \* <<>> or <<ParsedData>>: loadData("parsedData") at the start of an import
    mastersResult,  \* <<>> (no masters file) or <<MasterParseResult>>
    txResult,       \* the result of parseTransactions(txRaw)
    report,         \* <<>> or <<ImportReport>>: setReport of the last import
    importFailed,   \* runImportFromParsed threw
    latest,         \* <<>> or <<PredictionSnapshot>>: key latest of the predictions store
    accuracyStore,  \* <<>> or <<accuracy>>: key accuracy_<today> of the predictions store
    historyStore,   \* key history of the predictions store
    persistedBefore,\* the latest snapshot persisted when acceptData started
    hPc,            \* position of acceptData
    hPrev,          \* prevSnapshot of acceptData
    bPc,            \* position of the background task of mergeData
    bPrev,          \* prevSnapshot of the background task
    bSnapshot,      \* newSnapshot of the background task
    bHistory,       \* history of the background task
    idbQueue,       \* requests on the predictions store, in the order issued
    savePending,    \* saveData(parsedData) has not completed
    ingested,       \* items as the last import or restore delivered them
    lastOp,         \* the store operation that ran last
    bucketsIndexed, \* result of computeMonthlyBucketsIndexed
    rawRecord,      \* one raw voucher record of a transactions document
    canonical,      \* result of parseOneVoucher
    stockAfter,     \* stock of the item after replaying the parsed voucher
    upsells,        \* upsellItems of every party pattern, in the order of partyOrders
    mergedBatches,  \* the batches mergeData was called with, oldest first
    turnoverItems,  \* items of computeItemTurnover
    periodMonths,   \* length of the analysed period in months
    turnover        \* result of computeItemTurnover with its period

replayVars == <<item, vouchers, nMonths, asOfDate, voucherIndex, stock, stockIndexed, buckets>>
agingVars == <<ledgers, today, records, days, agingBucket>>
parseVars == <<rawVouchers, parsed>>
storeVars == <<rawData, data, units, rates, pendingData, accepts, repeats>>
ingestVars == <<rawDocument, masters>>
predictionVars == <<itemMap, orderType, predictions, newVouchers, accuracy, currentDate, timeZone>>
displayVars == <<unitItem, baseQty, unitMode, displayed, convertedBack, roundTrip>>
reconVars == <<existingData, mastersResult, txResult, report, importFailed>>
acceptVars == <<latest, accuracyStore, historyStore, persistedBefore, hPc, hPrev, bPc, bPrev, bSnapshot, bHistory, idbQueue, savePending>>
overrideVars == <<ingested, lastOp>>
indexedVars == <<bucketsIndexed>>
bodyVars == <<rawRecord, canonical, stockAfter>>
upsellVars == <<upsells>>
mergeVars == <<mergedBatches>>
turnoverVars == <<turnoverItems, periodMonths, turnover>>

otherThanReplay == <<agingVars, parseVars, storeVars, ingestVars, predictionVars, displayVars, reconVars, acceptVars, overrideVars, indexedVars, bodyVars, upsellVars, mergeVars, turnoverVars>>
otherThanAging == <<replayVars, parseVars, storeVars, ingestVars, predictionVars, displayVars, reconVars, acceptVars, overrideVars, indexedVars, bodyVars, upsellVars, mergeVars, turnoverVars>>
otherThanParse == <<replayVars, agingVars, storeVars, ingestVars, predictionVars, displayVars, reconVars, acceptVars, overrideVars, indexedVars, bodyVars, upsellVars, mergeVars, turnoverVars>>
otherThanStore == <<replayVars, agingVars, parseVars, ingestVars, predictionVars, displayVars, reconVars, acceptVars, overrideVars, indexedVars, bodyVars, upsellVars, mergeVars, turnoverVars>>
otherThanIngest == <<replayVars, agingVars, parseVars, storeVars, predictionVars, displayVars, reconVars, acceptVars, overrideVars, indexedVars, bodyVars, upsellVars, mergeVars, turnoverVars>>
otherThanPrediction == <<replayVars, agingVars, parseVars, storeVars, ingestVars, displayVars, reconVars, acceptVars, overrideVars, indexedVars, bodyVars, upsellVars, mergeVars, turnoverVars>>
otherThanDisplay == <<replayVars, agingVars, parseVars, storeVars, ingestVars, predictionVars, reconVars, acceptVars, overrideVars, indexedVars, bodyVars, upsellVars, mergeVars, turnoverVars>>
otherThanParseAndIngest == <<replayVars, agingVars, storeVars, predictionVars, displayVars, reconVars, acceptVars, overrideVars, indexedVars, bodyVars, upsellVars, mergeVars, turnoverVars>>
otherThanStoreAndRecon == <<replayVars, agingVars, parseVars, ingestVars, predictionVars, displayVars, acceptVars, overrideVars, indexedVars, bodyVars, upsellVars, mergeVars, turnoverVars>>
otherThanStoreAndAccept == <<replayVars, agingVars, parseVars, ingestVars, predictionVars, displayVars, reconVars, overrideVars, indexedVars, bodyVars, upsellVars, mergeVars, turnoverVars>>
otherThanStoreAndOverride == <<replayVars, agingVars, parseVars, ingestVars, predictionVars, displayVars, reconVars, acceptVars, indexedVars, bodyVars, upsellVars, mergeVars, turnoverVars>>
otherThanIndexed == <<replayVars, agingVars, parseVars, storeVars, ingestVars, predictionVars, displayVars, reconVars, acceptVars, overrideVars, bodyVars, upsellVars, mergeVars, turnoverVars>>
otherThanBody == <<replayVars, agingVars, parseVars, storeVars, ingestVars, predictionVars, displayVars, reconVars, acceptVars, overrideVars, indexedVars, upsellVars, mergeVars, turnoverVars>>
otherThanUpsell == <<replayVars, agingVars, parseVars, storeVars, ingestVars, predictionVars, displayVars, reconVars, acceptVars, overrideVars, indexedVars, bodyVars, mergeVars, turnoverVars>>
otherThanStoreAndMerge == <<replayVars, agingVars, parseVars, ingestVars, predictionVars, displayVars, reconVars, acceptVars, overrideVars, indexedVars, bodyVars, upsellVars, turnoverVars>>
otherThanTurnover == <<replayVars, agingVars, parseVars, storeVars, ingestVars, predictionVars, displayVars, reconVars, acceptVars, overrideVars, indexedVars, bodyVars, upsellVars, mergeVars>>

vars == <<replayVars, agingVars, parseVars, storeVars, ingestVars, predictionVars, displayVars, reconVars, acceptVars, overrideVars, indexedVars, bodyVars, upsellVars, mergeVars, turnoverVars>>

-----------------------------------------------------------------------------
(* Bounds of the model *)

MaxVouchers == 2
MaxWindow == 2

-----------------------------------------------------------------------------
(* Optional values *)

Absent == <<>>
Some(x) == <<x>>
OrElse(o, d) == IF o = <<>> THEN d ELSE o[1]

(* Record<string, number> with `map[k] ?? 0` reads *)
EmptyMap == [k \in {} |-> 0]
Get(map, k) == IF k \in DOMAIN map THEN map[k] ELSE 0
AddTo(map, k, q) == [x \in (DOMAIN map) \cup {k} |-> IF x = k THEN Get(map, k) + q ELSE map[x]]

Abs(n) == IF n < 0 THEN -n ELSE n
Max(a, b) == IF a >= b THEN a ELSE b

-----------------------------------------------------------------------------
(* Canonical model: src/src/types/canonical.ts *)

CanonicalItem(id, opening) == [itemId |-> id, openingQtyBase |-> opening]

(* The fields of a CanonicalItem that the unit conversion reads *)
UnitItem(pkgUnit, unitsPerPkg) == [pkgUnit |-> pkgUnit, unitsPerPkg |-> unitsPerPkg]

InventoryLine(id, qty) ==
    [type |-> "inventory", itemId |-> Some(id), qtyBase |-> qty,
     isPartyLine |-> FALSE, isDebit |-> FALSE, amount |-> 0, billAllocations |-> <<>>]

LedgerLine(party, debit, amt, allocs) ==
    [type |-> "ledger", itemId |-> Absent, qtyBase |-> Absent,
     isPartyLine |-> party, isDebit |-> debit, amount |-> amt, billAllocations |-> allocs]

CanonicalBillAlloc(ref, btype, amt, due) ==
    [billRef |-> ref, billType |-> btype, amount |-> amt, dueDate |-> due]

CanonicalVoucher(vtype, number, date, total, cancelled, optional, lines) ==
    [voucherId |-> <<vtype, number, date>>, voucherNumber |-> number, voucherType |-> vtype,
     date |-> date, partyLedgerId |-> Absent, totalAmount |-> total,
     isCancelled |-> cancelled, isOptional |-> optional, lines |-> lines]

(* The same voucher with its counterparty ledger set *)
WithParty(v, ledgerId) ==
    [f \in DOMAIN v |-> IF f = "partyLedgerId" THEN Some(ledgerId) ELSE v[f]]

CanonicalLedger(id, creditDays) == [ledgerId |-> id, creditDays |-> creditDays]

(* v.date.slice(0, 7) *)
YearMonth(date) == <<date[1], date[2]>>

(* "YYYY-MM" string order *)
YmLess(a, b) == a[1] < b[1] \/ (a[1] = b[1] /\ a[2] < b[2])

-----------------------------------------------------------------------------
(* Balance replay engine: src/src/engine/inventory.ts *)

(* Variant of StockDelta: a Credit Note is replayed as an inward movement *)
StockDeltaCreditNoteInward(v, line, itm) ==
    IF line.type # "inventory" \/ line.itemId # Some(itm.itemId) THEN 0
    ELSE LET qty == OrElse(line.qtyBase, 0) IN
         IF v.voucherType = "Sales" THEN -qty
         ELSE IF v.voucherType \in {"Purchase", "Debit Note", "Credit Note"} THEN qty
         ELSE IF v.voucherType = "Stock Journal" THEN qty
         ELSE 0

(* The signed delta one line applies to the running stock *)
StockDelta(v, line, itm) ==
    IF line.type # "inventory" \/ line.itemId # Some(itm.itemId) THEN 0
    ELSE LET qty == OrElse(line.qtyBase, 0) IN
         IF v.voucherType \in {"Sales", "Credit Note"} THEN -qty
         ELSE IF v.voucherType \in {"Purchase", "Debit Note"} THEN qty
         ELSE IF v.voucherType = "Stock Journal" THEN qty
         ELSE 0

RECURSIVE ReplayLines(_, _, _, _)
ReplayLines(v, lines, itm, running) ==
    IF lines = <<>> THEN running
    ELSE ReplayLines(v, Tail(lines), itm, running + StockDelta(v, Head(lines), itm))

RECURSIVE ReplayVouchers(_, _, _)
ReplayVouchers(vs, itm, running) ==
    IF vs = <<>> THEN running
    ELSE LET v == Head(vs) IN
         IF v.isCancelled \/ v.isOptional
         THEN ReplayVouchers(Tail(vs), itm, running)
         ELSE ReplayVouchers(Tail(vs), itm, ReplayLines(v, v.lines, itm, running))

getCurrentStock(itm, vs) == ReplayVouchers(vs, itm, itm.openingQtyBase)

(* buildVoucherIndex: the inner loop pushes v once per inventory line *)
RECURSIVE IndexLines(_, _, _)
IndexLines(idx, v, lines) ==
    IF lines = <<>> THEN idx
    ELSE LET line == Head(lines) IN
         IF line.type # "inventory" \/ line.itemId = Absent
         THEN IndexLines(idx, v, Tail(lines))
         ELSE LET k == line.itemId[1]
                  arr == IF k \in DOMAIN idx THEN idx[k] ELSE <<>>
              IN IndexLines([x \in (DOMAIN idx) \cup {k} |->
                                IF x = k THEN Append(arr, v) ELSE idx[x]],
                            v, Tail(lines))

RECURSIVE IndexVouchers(_, _)
IndexVouchers(idx, vs) ==
    IF vs = <<>> THEN idx
    ELSE LET v == Head(vs) IN
         IF v.isCancelled \/ v.isOptional
         THEN IndexVouchers(idx, Tail(vs))
         ELSE IndexVouchers(IndexLines(idx, v, v.lines), Tail(vs))

buildVoucherIndex(vs) == IndexVouchers(EmptyMap, vs)

RECURSIVE ReplayIndexed(_, _, _)
ReplayIndexed(vs, itm, running) ==
    IF vs = <<>> THEN running
    ELSE ReplayIndexed(Tail(vs), itm, ReplayLines(Head(vs), Head(vs).lines, itm, running))

getCurrentStockIndexed(itm, idx) ==
    LET itemVouchers == IF itm.itemId \in DOMAIN idx THEN idx[itm.itemId] ELSE <<>>
    IN ReplayIndexed(itemVouchers, itm, itm.openingQtyBase)

(* getMonthRange: new Date(year, month - i, 1) for i = n-1 .. 0 *)
MonthOffset(ym, back) ==
    LET k == ym[1] * 12 + (ym[2] - 1) - back
    IN <<k \div 12, (k % 12) + 1>>

getMonthRange(n, asOf) == [k \in 1..n |-> MonthOffset(YearMonth(asOf), n - k)]

(* The first loop of computeMonthlyBuckets: monthlyIn / monthlyOut *)
BucketLine(acc, v, line, itm) ==
    IF line.type # "inventory" \/ line.itemId # Some(itm.itemId) THEN acc
    ELSE LET qty == OrElse(line.qtyBase, 0)
             ym == YearMonth(v.date)
         IN IF v.voucherType \in {"Sales", "Credit Note"}
            THEN [acc EXCEPT !.out = AddTo(@, ym, qty)]
            ELSE IF v.voucherType \in {"Purchase", "Debit Note"}
            THEN [acc EXCEPT !.in = AddTo(@, ym, qty)]
            ELSE IF v.voucherType = "Stock Journal"
            THEN IF qty > 0 THEN [acc EXCEPT !.in = AddTo(@, ym, qty)]
                 ELSE [acc EXCEPT !.out = AddTo(@, ym, Abs(qty))]
            ELSE acc

RECURSIVE BucketLines(_, _, _, _)
BucketLines(acc, v, lines, itm) ==
    IF lines = <<>> THEN acc
    ELSE BucketLines(BucketLine(acc, v, Head(lines), itm), v, Tail(lines), itm)

RECURSIVE MonthlyMovements(_, _, _)
MonthlyMovements(acc, vs, itm) ==
    IF vs = <<>> THEN acc
    ELSE LET v == Head(vs) IN
         IF v.isCancelled \/ v.isOptional
         THEN MonthlyMovements(acc, Tail(vs), itm)
         ELSE MonthlyMovements(BucketLines(acc, v, v.lines, itm), Tail(vs), itm)

(* Variant of PreRange: the opening quantity is applied at the window start *)
PreRangeSkipped(acc, pre, running) == running

(* Variant of PreRange: only the latest month before the window is rolled in *)
PreRangeLastOnly(acc, pre, running) ==
    IF pre = {} THEN running
    ELSE LET pm == CHOOSE m \in pre : \A o \in pre : o = m \/ YmLess(o, m)
         IN running + Get(acc.in, pm) - Get(acc.out, pm)

(* The pre-range loop: months with movements before months[0], ascending *)
RECURSIVE PreRange(_, _, _)
PreRange(acc, pre, running) ==
    IF pre = {} THEN running
    ELSE LET pm == CHOOSE m \in pre : \A o \in pre : o = m \/ YmLess(m, o)
         IN PreRange(acc, pre \ {pm}, running + Get(acc.in, pm) - Get(acc.out, pm))

(* Variant of BucketLoop: the running balance is not carried to the next month *)
RECURSIVE BucketLoopNoCarry(_, _, _, _, _)
BucketLoopNoCarry(acc, months, i, running, result) ==
    IF i > Len(months) THEN result
    ELSE LET ym == months[i]
             inw == Get(acc.in, ym)
             out == Get(acc.out, ym)
             closing == running + inw - out
         IN BucketLoopNoCarry(acc, months, i + 1, running,
                IF ym # months[1]
                THEN Append(result, [yearMonth |-> ym, openingQtyBase |-> running,
                                     inwardsBase |-> inw, outwardsBase |-> out,
                                     closingQtyBase |-> closing])
                ELSE result)

(* The result loop over months; months[0] only rolls the running balance *)
RECURSIVE BucketLoop(_, _, _, _, _)
BucketLoop(acc, months, i, running, result) ==
    IF i > Len(months) THEN result
    ELSE LET ym == months[i]
             inw == Get(acc.in, ym)
             out == Get(acc.out, ym)
             closing == running + inw - out
         IN BucketLoop(acc, months, i + 1, closing,
                IF ym # months[1]
                THEN Append(result, [yearMonth |-> ym, openingQtyBase |-> running,
                                     inwardsBase |-> inw, outwardsBase |-> out,
                                     closingQtyBase |-> closing])
                ELSE result)

BucketsFrom(acc, itm, n, asOf) ==
    LET months == getMonthRange(n + 1, asOf)
        firstMonth == months[1]
        all == (DOMAIN acc.in) \cup (DOMAIN acc.out)
        pre == {m \in all : YmLess(m, firstMonth)}
    IN BucketLoop(acc, months, 1, PreRange(acc, pre, itm.openingQtyBase), <<>>)

computeMonthlyBuckets(itm, vs, n, asOf) ==
    BucketsFrom(MonthlyMovements([in |-> EmptyMap, out |-> EmptyMap], vs, itm), itm, n, asOf)

-----------------------------------------------------------------------------
(* Inputs of the replay engine *)

SeqsUpTo(S, n) == UNION {[1..k -> S] : k \in 0..n}

ReplayTypes == {"Sales", "Credit Note", "Purchase", "Debit Note", "Stock Journal", "Journal"}

StockDate == <<2024, 4, 1>>

StockLineSeqs ==
    { <<InventoryLine("A", Some(1))>>,
      <<InventoryLine("A", Some(1)), InventoryLine("A", Some(2))>>,
      <<InventoryLine("B", Some(1)), InventoryLine("A", Some(-3))>>,
      <<LedgerLine(TRUE, TRUE, 0, <<>>), InventoryLine("A", Absent), InventoryLine("A", Some(2))>> }

StockVouchers ==
    { CanonicalVoucher(t, "1", StockDate, 0, FALSE, FALSE, ls) : t \in ReplayTypes, ls \in StockLineSeqs }
    \cup { CanonicalVoucher("Purchase", "2", StockDate, 0, c, o, <<InventoryLine("A", Some(1))>>) :
             c \in BOOLEAN, o \in BOOLEAN }
    \cup { CanonicalVoucher("Purchase", "3", StockDate, 0, FALSE, FALSE, <<InventoryLine("A", Some(50))>>),
           CanonicalVoucher("Sales", "4", StockDate, 0, FALSE, FALSE, <<InventoryLine("A", Some(30))>>) }

BucketMonths == {<<2023, 9>>, <<2023, 11>>, <<2023, 12>>, <<2024, 1>>, <<2024, 2>>, <<2024, 3>>}

BucketVouchers ==
    { CanonicalVoucher("Sales", "1", <<m[1], m[2], 5>>, 0, FALSE, FALSE, <<InventoryLine("A", Some(1))>>) :
        m \in BucketMonths }
    \cup { CanonicalVoucher("Purchase", "2", <<m[1], m[2], 9>>, 0, FALSE, FALSE, <<InventoryLine("A", Some(2))>>) :
        m \in BucketMonths }
    \cup { CanonicalVoucher("Stock Journal", "3", <<m[1], m[2], 28>>, 0, FALSE, FALSE,
                            <<InventoryLine("A", Some(-3)), InventoryLine("B", Some(4))>>) :
        m \in BucketMonths }
    \cup { CanonicalVoucher("Purchase", "4", <<2023, 9, 1>>, 0, TRUE, FALSE, <<InventoryLine("A", Some(7))>>),
           CanonicalVoucher("Sales", "5", <<2024, 1, 1>>, 0, FALSE, TRUE, <<InventoryLine("A", Some(7))>>),
           CanonicalVoucher("Credit Note", "6", <<2023, 12, 1>>, 0, FALSE, FALSE, <<InventoryLine("A", Some(5))>>),
           CanonicalVoucher("Debit Note", "7", <<2023, 12, 1>>, 0, FALSE, FALSE, <<InventoryLine("A", Some(5))>>),
           CanonicalVoucher("Journal", "8", <<2023, 12, 1>>, 0, FALSE, FALSE, <<InventoryLine("A", Some(5))>>) }

AsOfDates == {<<2024, 1, 15>>, <<2024, 2, 29>>}

-----------------------------------------------------------------------------
(* Operations of the replay engine *)

GetCurrentStock ==
    /\ stock = Absent
    /\ stock' = Some(getCurrentStock(item, vouchers))
    /\ UNCHANGED <<item, vouchers, nMonths, asOfDate, voucherIndex, stockIndexed, buckets>>
    /\ UNCHANGED otherThanReplay

BuildVoucherIndex ==
    /\ voucherIndex = Absent
    /\ voucherIndex' = Some(buildVoucherIndex(vouchers))
    /\ UNCHANGED <<item, vouchers, nMonths, asOfDate, stock, stockIndexed, buckets>>
    /\ UNCHANGED otherThanReplay

GetCurrentStockIndexed ==
    /\ voucherIndex # Absent
    /\ stockIndexed = Absent
    /\ stockIndexed' = Some(getCurrentStockIndexed(item, voucherIndex[1]))
    /\ UNCHANGED <<item, vouchers, nMonths, asOfDate, voucherIndex, stock, buckets>>
    /\ UNCHANGED otherThanReplay

ComputeMonthlyBuckets ==
    /\ buckets = Absent
    /\ buckets' = Some(computeMonthlyBuckets(item, vouchers, nMonths, asOfDate))
    /\ UNCHANGED <<item, vouchers, nMonths, asOfDate, voucherIndex, stock, stockIndexed>>
    /\ UNCHANGED otherThanReplay

ReplayResultsInit ==
    /\ voucherIndex = Absent
    /\ stock = Absent
    /\ stockIndexed = Absent
    /\ buckets = Absent

(* The aging engine is not used *)
AgingIdle ==
    /\ ledgers = EmptyMap
    /\ today = 0
    /\ records = Absent
    /\ days = 0
    /\ agingBucket = Absent

(* The parser is not used *)
ParseIdle ==
    /\ rawVouchers = <<>>
    /\ parsed = Absent

(* The stores as created, nothing imported *)
StoreIdle ==
    /\ rawData = Absent
    /\ data = Absent
    /\ units = EmptyMap
    /\ rates = EmptyMap
    /\ pendingData = Absent
    /\ accepts = 0
    /\ repeats = 0

(* No document is being ingested *)
IngestIdle ==
    /\ rawDocument = <<>>
    /\ masters = Absent

(* The data store without its data *)
StoreIdleExceptData ==
    /\ units = EmptyMap
    /\ rates = EmptyMap
    /\ accepts = 0
    /\ repeats = 0

(* The prediction engine is not used *)
PredictionIdle ==
    /\ itemMap = EmptyMap
    /\ orderType = "Sales"
    /\ predictions = Absent
    /\ newVouchers = <<>>
    /\ accuracy = Absent
    /\ currentDate = <<2024, 1, 1>>
    /\ timeZone = "UTC"

(* The unit conversion is not used *)
DisplayIdle ==
    /\ unitItem = UnitItem(Absent, 1)
    /\ baseQty = 0
    /\ unitMode = "BASE"
    /\ displayed = Absent
    /\ convertedBack = Absent
    /\ roundTrip = Absent

(* No import is being reviewed *)
ReconIdle ==
    /\ existingData = Absent
    /\ mastersResult = Absent
    /\ txResult = [vouchers |-> <<>>, warnings |-> <<>>]
    /\ report = Absent
    /\ importFailed = FALSE

(* No import is being accepted *)
AcceptIdle ==
    /\ latest = Absent
    /\ accuracyStore = Absent
    /\ historyStore = <<>>
    /\ persistedBefore = Absent
    /\ hPc = "idle"
    /\ hPrev = Absent
    /\ bPc = "off"
    /\ bPrev = Absent
    /\ bSnapshot = Absent
    /\ bHistory = <<>>
    /\ idbQueue = <<>>
    /\ savePending = FALSE

(* No override has been edited *)
OverrideIdle ==
    /\ ingested = EmptyMap
    /\ lastOp = "none"

(* The indexed monthly buckets are not computed *)
IndexedIdle ==
    /\ bucketsIndexed = Absent

(* No single voucher record is parsed *)
BodyIdle ==
    /\ rawRecord = Absent
    /\ canonical = Absent
    /\ stockAfter = Absent

(* No upsell suggestions are generated *)
UpsellIdle ==
    /\ upsells = Absent

(* mergeData has not been called *)
MergeIdle ==
    /\ mergedBatches = <<>>

(* The turnover is not computed *)
TurnoverIdle ==
    /\ turnoverItems = EmptyMap
    /\ periodMonths = 12
    /\ turnover = Absent

(* Current stock, unindexed and indexed, over one voucher list *)
InitStock ==
    /\ item \in {CanonicalItem("A", 0), CanonicalItem("A", 100)}
    /\ vouchers \in SeqsUpTo(StockVouchers, MaxVouchers)
    /\ nMonths = 1
    /\ asOfDate = StockDate
    /\ ReplayResultsInit
    /\ AgingIdle
    /\ ParseIdle
    /\ StoreIdle
    /\ IngestIdle
    /\ PredictionIdle
    /\ DisplayIdle
    /\ ReconIdle
    /\ AcceptIdle
    /\ OverrideIdle
    /\ IndexedIdle
    /\ BodyIdle
    /\ UpsellIdle
    /\ MergeIdle
    /\ TurnoverIdle

NextStock == GetCurrentStock \/ BuildVoucherIndex \/ GetCurrentStockIndexed

SpecStock == InitStock /\ [][NextStock]_vars

(* Monthly buckets and current stock over one dated voucher list *)
InitBuckets ==
    /\ item = CanonicalItem("A", 10)
    /\ vouchers \in SeqsUpTo(BucketVouchers, MaxVouchers)
    /\ nMonths \in 1..MaxWindow
    /\ asOfDate \in AsOfDates
    /\ ReplayResultsInit
    /\ AgingIdle
    /\ ParseIdle
    /\ StoreIdle
    /\ IngestIdle
    /\ PredictionIdle
    /\ DisplayIdle
    /\ ReconIdle
    /\ AcceptIdle
    /\ OverrideIdle
    /\ IndexedIdle
    /\ BodyIdle
    /\ UpsellIdle
    /\ MergeIdle
    /\ TurnoverIdle

NextBuckets == ComputeMonthlyBuckets \/ GetCurrentStock

SpecBuckets == InitBuckets /\ [][NextBuckets]_vars

-----------------------------------------------------------------------------
(* Properties of the replay engine *)

RECURSIVE SumOver(_, _)
SumOver(f, D) ==
    IF D = {} THEN 0
    ELSE LET x == CHOOSE y \in D : TRUE IN f[x] + SumOver(f, D \ {x})

(* The inventory lines of the item on vouchers that are neither cancelled nor optional *)
LiveItemLines ==
    { p \in UNION {{<<i, j>> : j \in 1..Len(vouchers[i].lines)} : i \in 1..Len(vouchers)} :
        /\ ~vouchers[p[1]].isCancelled
        /\ ~vouchers[p[1]].isOptional
        /\ vouchers[p[1]].lines[p[2]].type = "inventory"
        /\ vouchers[p[1]].lines[p[2]].itemId = Some(item.itemId) }

LineQty(p) == OrElse(vouchers[p[1]].lines[p[2]].qtyBase, 0)
LineType(p) == vouchers[p[1]].voucherType

(* Inward minus outward of one line, by voucher type *)
NetMovement(p) ==
    CASE LineType(p) \in {"Sales", "Credit Note"} -> 0 - LineQty(p)
      [] LineType(p) \in {"Purchase", "Debit Note"} -> LineQty(p)
      [] LineType(p) = "Stock Journal" -> LineQty(p)
      [] OTHER -> 0

NetOf(P) == SumOver([p \in P |-> NetMovement(p)], P)

(* C1: the indexed stock computation returns the same quantity as the unindexed one *)
C1_IndexedStockEqualsUnindexed ==
    (stock # Absent /\ stockIndexed # Absent) => stockIndexed = stock

(* C2: current stock is the opening quantity minus Sales / Credit Note quantities, plus
   Purchase / Debit Note quantities, plus signed Stock Journal quantities, over the lines
   of the item on vouchers that are neither cancelled nor optional; opening 100,
   Purchase 50, Sale 30 gives 120 *)
C2_StockReplay ==
    stock # Absent =>
        /\ stock[1] = item.openingQtyBase + NetOf(LiveItemLines)
        /\ ( /\ item.openingQtyBase = 100
             /\ Len(vouchers) = 2
             /\ vouchers[1].voucherNumber = "3"
             /\ vouchers[2].voucherNumber = "4" ) => stock[1] = 120

C2_Witness ==
    /\ stock = Some(120)
    /\ item.openingQtyBase = 100
    /\ Len(vouchers) = 2
    /\ vouchers[1].voucherType = "Purchase" /\ vouchers[1].lines[1].qtyBase = Some(50)
    /\ vouchers[2].voucherType = "Sales" /\ vouchers[2].lines[1].qtyBase = Some(30)

(* C3: in the bucket sequence the closing quantity of each bucket is the opening quantity
   of the next, and in each bucket closing = opening + inwards - outwards *)
C3_BucketChain ==
    buckets # Absent =>
        LET bs == buckets[1] IN
        /\ \A i \in 1..Len(bs) :
             bs[i].closingQtyBase = bs[i].openingQtyBase + bs[i].inwardsBase - bs[i].outwardsBase
        /\ \A i \in 1..(Len(bs) - 1) : bs[i].closingQtyBase = bs[i + 1].openingQtyBase

C3_Witness ==
    /\ buckets # Absent
    /\ Len(buckets[1]) >= 2
    /\ buckets[1][1].inwardsBase > 0
    /\ buckets[1][1].outwardsBase > 0
    /\ buckets[1][2].openingQtyBase # item.openingQtyBase

(* The month of the reference date, and the first month shown *)
ReferenceMonth == YearMonth(asOfDate)
FirstShownMonth == MonthOffset(ReferenceMonth, nMonths - 1)

LinesBefore(ym) == {p \in LiveItemLines : YmLess(YearMonth(vouchers[p[1]].date), ym)}
LinesAfter(ym) == {p \in LiveItemLines : YmLess(ym, YearMonth(vouchers[p[1]].date))}

(* C4 as stated: the closing quantity of the last bucket is the current stock, whatever
   the dates of the vouchers *)
C4_LastClosingIsStock ==
    (buckets # Absent /\ stock # Absent /\ Len(buckets[1]) > 0) =>
        buckets[1][Len(buckets[1])].closingQtyBase = stock[1]

(* C4 as amended: the closing quantity of the last bucket is the current stock when no
   movement of the item that is neither cancelled nor optional is dated after the
   reference month *)
C4_LastClosingIsStockNoLaterMovement ==
    (buckets # Absent /\ stock # Absent /\ Len(buckets[1]) > 0 /\ LinesAfter(ReferenceMonth) = {}) =>
        buckets[1][Len(buckets[1])].closingQtyBase = stock[1]

C4_Witness ==
    /\ buckets # Absent /\ stock # Absent /\ Len(buckets[1]) > 0
    /\ LinesAfter(ReferenceMonth) = {}
    /\ LinesBefore(FirstShownMonth) # {}
    /\ stock[1] # item.openingQtyBase
    /\ buckets[1][Len(buckets[1])].closingQtyBase = stock[1]

(* C5: the opening quantity of the first bucket is the item's opening quantity plus the
   net of every movement, neither cancelled nor optional, dated before the first month
   shown *)
C5_FirstOpeningRollsForward ==
    (buckets # Absent /\ Len(buckets[1]) > 0) =>
        buckets[1][1].openingQtyBase = item.openingQtyBase + NetOf(LinesBefore(FirstShownMonth))

C5_Witness ==
    /\ buckets # Absent /\ Len(buckets[1]) > 0
    /\ \E p \in LinesBefore(FirstShownMonth), q \in LinesBefore(FirstShownMonth) :
         /\ YmLess(YearMonth(vouchers[p[1]].date), MonthOffset(FirstShownMonth, 1))
         /\ YmLess(YearMonth(vouchers[p[1]].date), YearMonth(vouchers[q[1]].date))
    /\ buckets[1][1].openingQtyBase # item.openingQtyBase

-----------------------------------------------------------------------------
(* Aging / outstanding engine: src/src/engine/financial.ts *)

(* Amounts count units of 0.005, so the 0.01 threshold is 2 *)
OutstandingEpsilon == 2
DefaultCreditDays == 30

(* new Date("YYYY-MM-DD").getTime() / 86400000 *)
IsLeapYear(y) == (y % 4 = 0 /\ y % 100 # 0) \/ y % 400 = 0
DaysBeforeMonth(y, m) ==
    <<0, 31, 59, 90, 120, 151, 181, 212, 243, 273, 304, 334>>[m]
        + (IF m > 2 /\ IsLeapYear(y) THEN 1 ELSE 0)
DayNumber(date) ==
    LET y == date[1] IN
    365 * (y - 1970) + ((y - 1969) \div 4) - ((y - 1901) \div 100) + ((y - 1601) \div 400)
        + DaysBeforeMonth(y, date[2]) + (date[3] - 1)

(* Variant of getAgingBucket: the upper boundaries are exclusive *)
getAgingBucketExclusive(d) ==
    IF d <= 0 THEN "current"
    ELSE IF d < 30 THEN "1-30"
    ELSE IF d < 60 THEN "31-60"
    ELSE IF d < 90 THEN "61-90"
    ELSE "90+"

getAgingBucket(d) ==
    IF d <= 0 THEN "current"
    ELSE IF d <= 30 THEN "1-30"
    ELSE IF d <= 60 THEN "31-60"
    ELSE IF d <= 90 THEN "61-90"
    ELSE "90+"

(* First loop: bill reference -> cumulative "Agst Ref" amount *)
RECURSIVE PayAllocs(_, _)
PayAllocs(bp, allocs) ==
    IF allocs = <<>> THEN bp
    ELSE LET ba == Head(allocs) IN
         PayAllocs(IF ba.billType = "Agst Ref" THEN AddTo(bp, ba.billRef, ba.amount) ELSE bp,
                   Tail(allocs))

RECURSIVE PayLines(_, _)
PayLines(bp, lines) ==
    IF lines = <<>> THEN bp
    ELSE LET line == Head(lines) IN
         PayLines(IF line.type # "ledger" THEN bp ELSE PayAllocs(bp, line.billAllocations),
                  Tail(lines))

RECURSIVE BillPayments(_, _)
BillPayments(bp, vs) ==
    IF vs = <<>> THEN bp
    ELSE LET v == Head(vs) IN
         IF v.voucherType \notin {"Receipt", "Payment"} \/ v.isCancelled
         THEN BillPayments(bp, Tail(vs))
         ELSE BillPayments(PayLines(bp, v.lines), Tail(vs))

(* Second loop, inner part: billed amount and due date of one invoice *)
RECURSIVE BilledAllocs(_, _)
BilledAllocs(b, allocs) ==
    IF allocs = <<>> THEN b
    ELSE LET ba == Head(allocs) IN
         BilledAllocs(IF ba.billType = "New Ref"
                      THEN [billedAmount |-> ba.amount, dueDate |-> ba.dueDate]
                      ELSE b,
                      Tail(allocs))

RECURSIVE BilledLines(_, _)
BilledLines(b, lines) ==
    IF lines = <<>> THEN b
    ELSE LET line == Head(lines) IN
         BilledLines(IF ~line.isPartyLine THEN b ELSE BilledAllocs(b, line.billAllocations),
                     Tail(lines))

(* Variant of KeepInvoice: the invoice is skipped only when nothing at all is outstanding *)
KeepInvoiceAnyOutstanding(outstanding) == outstanding > 0

(* `if (outstanding < 0.01) continue` *)
KeepInvoice(outstanding) == ~(outstanding < OutstandingEpsilon)

(* The record pushed for one invoice, or nothing *)
InvoiceRecord(v, bp, lg, now) ==
    LET b == BilledLines([billedAmount |-> v.totalAmount, dueDate |-> Absent], v.lines)
        paidAmount == Get(bp, v.voucherNumber)
        outstanding == Max(b.billedAmount - paidAmount, 0)
        ledgerCreditDays ==
            IF v.partyLedgerId # Absent /\ v.partyLedgerId[1] \in DOMAIN lg
            THEN lg[v.partyLedgerId[1]].creditDays
            ELSE DefaultCreditDays
        dueDay == IF b.dueDate # Absent THEN DayNumber(b.dueDate[1])
                  ELSE DayNumber(v.date) + ledgerCreditDays
        daysPastDue == now - dueDay
    IN IF ~KeepInvoice(outstanding) THEN <<>>
       ELSE << [voucherId |-> v.voucherId, voucherNumber |-> v.voucherNumber, date |-> v.date,
                totalAmount |-> b.billedAmount, paidAmount |-> paidAmount,
                outstanding |-> outstanding, dueDate |-> dueDay, daysPastDue |-> daysPastDue,
                type |-> IF v.voucherType = "Sales" THEN "receivable" ELSE "payable",
                agingBucket |-> getAgingBucket(daysPastDue)] >>

RECURSIVE InvoiceLoop(_, _, _, _, _)
InvoiceLoop(recs, vs, bp, lg, now) ==
    IF vs = <<>> THEN recs
    ELSE LET v == Head(vs) IN
         IF v.voucherType \notin {"Sales", "Purchase"} \/ v.isCancelled \/ v.isOptional
         THEN InvoiceLoop(recs, Tail(vs), bp, lg, now)
         ELSE InvoiceLoop(recs \o InvoiceRecord(v, bp, lg, now), Tail(vs), bp, lg, now)

computeOutstandingInvoices(vs, lg, now) ==
    InvoiceLoop(<<>>, vs, BillPayments(EmptyMap, vs), lg, now)

-----------------------------------------------------------------------------
(* Inputs of the aging engine *)

MaxAgingVouchers == 3
MaxDays == 100

NewRef(ref, amt, due) == CanonicalBillAlloc(ref, "New Ref", amt, due)
AgstRef(ref, amt) == CanonicalBillAlloc(ref, "Agst Ref", amt, Absent)

Invoice(vtype, number, day, total, cancelled, optional, allocs) ==
    CanonicalVoucher(vtype, number, <<2024, 1, day>>, total, cancelled, optional,
                     <<LedgerLine(TRUE, vtype = "Sales", total, allocs),
                       LedgerLine(FALSE, vtype # "Sales", total, <<>>)>>)

Settlement(vtype, number, day, cancelled, optional, allocs) ==
    CanonicalVoucher(vtype, number, <<2024, 2, day>>, 0, cancelled, optional,
                     <<LedgerLine(TRUE, vtype # "Receipt", 0, allocs)>>)

(* 1000.00 is 200000 units, 600.00 is 120000 units *)
AgingInvoices ==
    { WithParty(Invoice("Sales", "N1", 1, 200000, FALSE, FALSE,
                        <<NewRef("N1", 200000, Some(<<2024, 1, 31>>))>>), "L1"),
      Invoice("Sales", "N3", 2, 200000, FALSE, FALSE, <<NewRef("R", 200000, Absent)>>),
      WithParty(Invoice("Purchase", "N2", 3, 3, FALSE, FALSE, <<>>), "L9"),
      Invoice("Sales", "N1", 4, 7, FALSE, FALSE, <<NewRef("N1", 200000, Absent)>>),
      Invoice("Sales", "N1", 5, 200000, TRUE, FALSE, <<>>),
      Invoice("Purchase", "N2", 6, 200000, FALSE, TRUE, <<>>) }

AgingSettlements ==
    { Settlement("Receipt", "P1", 1, FALSE, FALSE, <<AgstRef("N1", 120000)>>),
      Settlement("Receipt", "P2", 2, FALSE, FALSE, <<AgstRef("R", 120000)>>),
      Settlement("Payment", "P3", 3, FALSE, FALSE, <<AgstRef("N2", 1)>>),
      Settlement("Payment", "P4", 4, FALSE, FALSE, <<AgstRef("N2", 1), AgstRef("N1", 80000)>>),
      Settlement("Receipt", "P5", 5, TRUE, FALSE, <<AgstRef("N1", 120000)>>),
      Settlement("Receipt", "P6", 6, FALSE, TRUE, <<AgstRef("N1", 250000)>>),
      Settlement("Receipt", "P7", 7, FALSE, FALSE,
                 <<CanonicalBillAlloc("N1", "On Account", 120000, Absent)>>),
      Settlement("Journal", "P8", 8, FALSE, FALSE, <<AgstRef("N1", 120000)>>) }

AgingVouchers == AgingInvoices \cup AgingSettlements

AgingLedgers == [id \in {"L1"} |-> CanonicalLedger(id, 45)]

-----------------------------------------------------------------------------
(* Operations of the aging engine *)

ComputeOutstandingInvoices ==
    /\ records = Absent
    /\ records' = Some(computeOutstandingInvoices(vouchers, ledgers, today))
    /\ UNCHANGED <<ledgers, today, days, agingBucket>>
    /\ UNCHANGED otherThanAging

GetAgingBucket ==
    /\ agingBucket = Absent
    /\ agingBucket' = Some(getAgingBucket(days))
    /\ UNCHANGED <<ledgers, today, records, days>>
    /\ UNCHANGED otherThanAging

(* The replay engine is not used *)
ReplayIdle ==
    /\ item = CanonicalItem("A", 0)
    /\ nMonths = 1
    /\ asOfDate = StockDate
    /\ ReplayResultsInit

InitAging ==
    /\ vouchers \in SeqsUpTo(AgingVouchers, MaxAgingVouchers)
    /\ ledgers = AgingLedgers
    /\ today \in {DayNumber(<<2024, 2, 15>>), DayNumber(<<2024, 6, 1>>)}
    /\ records = Absent
    /\ days = 0
    /\ agingBucket = Absent
    /\ ReplayIdle
    /\ ParseIdle
    /\ StoreIdle
    /\ IngestIdle
    /\ PredictionIdle
    /\ DisplayIdle
    /\ ReconIdle
    /\ AcceptIdle
    /\ OverrideIdle
    /\ IndexedIdle
    /\ BodyIdle
    /\ UpsellIdle
    /\ MergeIdle
    /\ TurnoverIdle

NextAging == ComputeOutstandingInvoices

SpecAging == InitAging /\ [][NextAging]_vars

InitAgingBucket ==
    /\ days \in (0 - MaxDays)..MaxDays
    /\ agingBucket = Absent
    /\ vouchers = <<>>
    /\ ledgers = EmptyMap
    /\ today = 0
    /\ records = Absent
    /\ ReplayIdle
    /\ ParseIdle
    /\ StoreIdle
    /\ IngestIdle
    /\ PredictionIdle
    /\ DisplayIdle
    /\ ReconIdle
    /\ AcceptIdle
    /\ OverrideIdle
    /\ IndexedIdle
    /\ BodyIdle
    /\ UpsellIdle
    /\ MergeIdle
    /\ TurnoverIdle

NextAgingBucket == GetAgingBucket

SpecAgingBucket == InitAgingBucket /\ [][NextAgingBucket]_vars

-----------------------------------------------------------------------------
(* Properties of the aging engine *)

(* Positions <<i, j, k>> of the bill allocations: voucher i, line j, allocation k *)
AllocPositions ==
    UNION { UNION { {<<i, j, k>> : k \in 1..Len(vouchers[i].lines[j].billAllocations)} :
                    j \in 1..Len(vouchers[i].lines) } :
            i \in 1..Len(vouchers) }

AllocAt(p) == vouchers[p[1]].lines[p[2]].billAllocations[p[3]]

(* "Agst Ref" allocations of reference ref on ledger lines of Receipt / Payment vouchers
   that are not cancelled *)
PaymentsAgainst(ref) ==
    { p \in AllocPositions :
        /\ vouchers[p[1]].voucherType \in {"Receipt", "Payment"}
        /\ ~vouchers[p[1]].isCancelled
        /\ vouchers[p[1]].lines[p[2]].type = "ledger"
        /\ AllocAt(p).billType = "Agst Ref"
        /\ AllocAt(p).billRef = ref }

PaidAgainst(ref) == SumOver([p \in PaymentsAgainst(ref) |-> AllocAt(p).amount], PaymentsAgainst(ref))

(* "New Ref" allocations on the counterparty lines of voucher i *)
NewRefsOf(i) ==
    { p \in AllocPositions :
        p[1] = i /\ vouchers[i].lines[p[2]].isPartyLine /\ AllocAt(p).billType = "New Ref" }

PosLess(p, q) == p[2] < q[2] \/ (p[2] = q[2] /\ p[3] < q[3])
LastNewRefOf(i) == CHOOSE p \in NewRefsOf(i) : \A q \in NewRefsOf(i) : q = p \/ PosLess(q, p)

BilledOf(i) ==
    IF NewRefsOf(i) = {} THEN vouchers[i].totalAmount ELSE AllocAt(LastNewRefOf(i)).amount

IsInvoice(i) ==
    /\ vouchers[i].voucherType \in {"Sales", "Purchase"}
    /\ ~vouchers[i].isCancelled
    /\ ~vouchers[i].isOptional

(* The vouchers a record was pushed for *)
VouchersOf(r) == {i \in 1..Len(vouchers) : vouchers[i].voucherId = r.voucherId}

(* C6: the amount paid against an invoice is the cumulative "Agst Ref" amount allocated
   against the bill reference of the invoice's own "New Ref" allocation; a Sale billed
   1000 under R with 600 paid against R has outstanding 400 *)
C6_PaidByBillReference ==
    records # Absent =>
        \A k \in 1..Len(records[1]) : \A i \in VouchersOf(records[1][k]) :
            NewRefsOf(i) # {} =>
                /\ records[1][k].paidAmount = PaidAgainst(AllocAt(LastNewRefOf(i)).billRef)
                /\ records[1][k].outstanding =
                       Max(BilledOf(i) - PaidAgainst(AllocAt(LastNewRefOf(i)).billRef), 0)

(* The bill reference of invoice i: that of its own "New Ref" allocation, the voucher
   number when it has none *)
BillRefOf(i) ==
    IF NewRefsOf(i) = {} THEN vouchers[i].voucherNumber ELSE AllocAt(LastNewRefOf(i)).billRef

UnpaidByReference ==
    { i \in 1..Len(vouchers) :
        IsInvoice(i) /\ Max(BilledOf(i) - PaidAgainst(BillRefOf(i)), 0) >= OutstandingEpsilon }

NthUnpaidByReference(k) ==
    CHOOSE i \in UnpaidByReference : Cardinality({j \in UnpaidByReference : j <= i}) = k

(* C7: there is exactly one record for each Sales / Purchase voucher, neither cancelled nor
   optional, whose max(billed - paid, 0) is at least 0.01, in voucher order, and none for
   any other voucher; every record has outstanding = max(totalAmount - paidAmount, 0)
   and outstanding >= 0.01 *)
C7_RecordsAreTheUnpaidInvoices ==
    records # Absent =>
        /\ Len(records[1]) = Cardinality(UnpaidByReference)
        /\ \A k \in 1..Len(records[1]) :
             LET r == records[1][k] IN
             /\ r.voucherId = vouchers[NthUnpaidByReference(k)].voucherId
             /\ r.totalAmount = BilledOf(NthUnpaidByReference(k))
             /\ r.outstanding = Max(r.totalAmount - r.paidAmount, 0)
             /\ r.outstanding >= OutstandingEpsilon

(* The invoices a record exists for when paid is the cumulative amount keyed by the
   voucher number, as the record's paidAmount is *)
Unpaid ==
    { i \in 1..Len(vouchers) :
        IsInvoice(i) /\
        Max(BilledOf(i) - PaidAgainst(vouchers[i].voucherNumber), 0) >= OutstandingEpsilon }

NthUnpaid(k) == CHOOSE i \in Unpaid : Cardinality({j \in Unpaid : j <= i}) = k

(* With paid keyed by the voucher number the records are the unpaid invoices, in voucher
   order, with outstanding = max(totalAmount - paidAmount, 0) >= 0.01 *)
RecordsFollowPaidAmount ==
    records # Absent =>
        /\ Len(records[1]) = Cardinality(Unpaid)
        /\ \A k \in 1..Len(records[1]) :
             LET r == records[1][k] IN
             /\ r.voucherId = vouchers[NthUnpaid(k)].voucherId
             /\ r.totalAmount = BilledOf(NthUnpaid(k))
             /\ r.outstanding = Max(r.totalAmount - r.paidAmount, 0)
             /\ r.outstanding >= OutstandingEpsilon

RecordsFollowPaidAmountWitness ==
    /\ records # Absent
    /\ Len(records[1]) = 1
    /\ records[1][1].outstanding = OutstandingEpsilon
    /\ records[1][1].paidAmount > 0
    /\ \E i \in 1..Len(vouchers) : vouchers[i].voucherType = "Sales" /\ i \notin Unpaid

(* C8: the aging bucket is determined by days past due: <= 0 current, 1..30 "1-30",
   31..60 "31-60", 61..90 "61-90", >= 91 "90+" *)
C8_AgingBucketBoundaries ==
    agingBucket # Absent =>
        /\ days <= 0 => agingBucket[1] = "current"
        /\ days \in 1..30 => agingBucket[1] = "1-30"
        /\ days \in 31..60 => agingBucket[1] = "31-60"
        /\ days \in 61..90 => agingBucket[1] = "61-90"
        /\ days >= 91 => agingBucket[1] = "90+"

C8_Witness ==
    /\ days = 91
    /\ agingBucket = Some("90+")

-----------------------------------------------------------------------------
(* Voucher parser: src/src/parser/transactionParser.ts *)

(* A raw record is "object" (a JSON object), "nonobject" (null, a number, a string) or
   "badlines" (an object whose `lines` is not an array, so that reading the lines
   throws).  A raw string that may carry blanks is [text, padded]; a raw date is
   [fmt, y, m, d] with fmt one of "iso" (YYYY-MM-DD), "compact" (YYYYMMDD),
   "dmy" (D-M-YYYY or D/M/YYYY), "empty" ("") and "garbage" (not a date). *)

RawText(text, padded) == [text |-> text, padded |-> padded]
RawDate(fmt, date) == [fmt |-> fmt, y |-> date[1], m |-> date[2], d |-> date[3]]

(* a ?? b ?? c *)
Coalesce3(a, b, c) == IF a # Absent THEN a ELSE IF b # Absent THEN b ELSE c

(* String(raw).toLowerCase().trim() on the type names of the model *)
LowerTrim(raw) ==
    CASE raw.text \in {"SALES", "Sales", "sales"} -> "sales"
      [] raw.text \in {"Sale", "sale"} -> "sale"
      [] raw.text \in {"Purchase", "PURCHASE", "purchase"} -> "purchase"
      [] raw.text \in {"Stock Journal", "stock journal"} -> "stock journal"
      [] raw.text \in {"Memo", "memo"} -> "memo"
      [] raw.text = "Other" -> "other"
      [] OTHER -> raw.text

VOUCHER_TYPE_MAP ==
    [k \in {"sales", "sale", "purchase", "receipt", "payment", "journal", "contra",
            "debit note", "debitnote", "credit note", "creditnote",
            "stock journal", "stockjournal"} |->
        CASE k \in {"sales", "sale"} -> "Sales"
          [] k = "purchase" -> "Purchase"
          [] k = "receipt" -> "Receipt"
          [] k = "payment" -> "Payment"
          [] k = "journal" -> "Journal"
          [] k = "contra" -> "Contra"
          [] k \in {"debit note", "debitnote"} -> "Debit Note"
          [] k \in {"credit note", "creditnote"} -> "Credit Note"
          [] k \in {"stock journal", "stockjournal"} -> "Stock Journal"]

normalizeVoucherType(raw) ==
    LET key == LowerTrim(raw)
    IN IF key \in DOMAIN VOUCHER_TYPE_MAP THEN VOUCHER_TYPE_MAP[key] ELSE "Other"

(* parseDate: null for a missing, empty or unparseable value *)
parseDate(v) ==
    IF v = Absent THEN Absent
    ELSE IF v[1].fmt \in {"iso", "compact", "dmy"} THEN Some(<<v[1].y, v[1].m, v[1].d>>)
    ELSE Absent

(* The outcome of parseOneVoucher: a voucher, null (with its warnings), or a throw *)
parseOneVoucher(rv) ==
    IF rv.kind = "nonobject" THEN [outcome |-> "null", warnings |-> <<>>]
    ELSE LET date == parseDate(IF rv.date # Absent THEN rv.date ELSE rv.DATE) IN
         IF date = Absent
         THEN [outcome |-> "null",
               warnings |-> <<[severity |-> "warn", context |-> "voucher"]>>]
         ELSE IF rv.kind = "badlines" THEN [outcome |-> "throw", warnings |-> <<>>]
         ELSE LET voucherType ==
                      normalizeVoucherType(
                          OrElse(Coalesce3(rv.vouchertypename, rv.voucherType, rv.VOUCHERTYPENAME),
                                 RawText("Other", FALSE)))
                  voucherNumber ==
                      OrElse(Coalesce3(rv.vouchernumber, rv.voucherNumber, rv.VOUCHERNUMBER),
                             RawText("", FALSE)).text
              IN [outcome |-> "voucher", warnings |-> <<>>,
                  voucher |-> [voucherId |-> <<voucherType, voucherNumber, date[1]>>,
                               voucherNumber |-> voucherNumber,
                               voucherType |-> voucherType,
                               date |-> date[1],
                               narration |-> rv.narration]]

(* Variant of ParseLoop: the seen set is not consulted *)
RECURSIVE ParseLoopNoSeen(_, _, _)
ParseLoopNoSeen(acc, seen, rvs) ==
    IF rvs = <<>> THEN acc
    ELSE LET r == parseOneVoucher(Head(rvs))
             w == acc.warnings \o r.warnings
         IN IF r.outcome = "throw"
            THEN ParseLoopNoSeen([acc EXCEPT !.warnings =
                                     Append(w, [severity |-> "warn", context |-> "voucher"])],
                                 seen, Tail(rvs))
            ELSE IF r.outcome = "voucher"
            THEN ParseLoopNoSeen([vouchers |-> Append(acc.vouchers, r.voucher), warnings |-> w],
                                 seen \cup {r.voucher.voucherId}, Tail(rvs))
            ELSE ParseLoopNoSeen([acc EXCEPT !.warnings = w], seen, Tail(rvs))

(* The loop of parseTransactions over rawVouchers *)
RECURSIVE ParseLoop(_, _, _)
ParseLoop(acc, seen, rvs) ==
    IF rvs = <<>> THEN acc
    ELSE LET r == parseOneVoucher(Head(rvs))
             w == acc.warnings \o r.warnings
         IN IF r.outcome = "throw"
            THEN ParseLoop([acc EXCEPT !.warnings =
                               Append(w, [severity |-> "warn", context |-> "voucher"])],
                           seen, Tail(rvs))
            ELSE IF r.outcome = "voucher" /\ r.voucher.voucherId \notin seen
            THEN ParseLoop([vouchers |-> Append(acc.vouchers, r.voucher), warnings |-> w],
                           seen \cup {r.voucher.voucherId}, Tail(rvs))
            ELSE ParseLoop([acc EXCEPT !.warnings = w], seen, Tail(rvs))

parseTransactions(rvs) == ParseLoop([vouchers |-> <<>>, warnings |-> <<>>], {}, rvs)

-----------------------------------------------------------------------------
(* Inputs of the parser *)

MaxRaw == 3

RawVoucher(kind, typeField, typeName, numberField, number, dateField, date, narration) ==
    [kind |-> kind,
     vouchertypename |-> IF typeField = "vouchertypename" THEN Some(typeName) ELSE Absent,
     voucherType |-> IF typeField = "voucherType" THEN Some(typeName) ELSE Absent,
     VOUCHERTYPENAME |-> IF typeField = "VOUCHERTYPENAME" THEN Some(typeName) ELSE Absent,
     vouchernumber |-> IF numberField = "vouchernumber" THEN Some(number) ELSE Absent,
     voucherNumber |-> IF numberField = "voucherNumber" THEN Some(number) ELSE Absent,
     VOUCHERNUMBER |-> IF numberField = "VOUCHERNUMBER" THEN Some(number) ELSE Absent,
     date |-> IF dateField = "date" THEN Some(date) ELSE Absent,
     DATE |-> IF dateField = "DATE" THEN Some(date) ELSE Absent,
     narration |-> narration]

Day1 == <<2024, 4, 1>>
Day2 == <<2024, 4, 2>>

RawVouchers ==
    { (* key Sales|1|2024-04-01, written four ways *)
      RawVoucher("object", "vouchertypename", RawText("SALES", FALSE), "vouchernumber",
                 RawText("1", FALSE), "date", RawDate("compact", Day1), "a"),
      RawVoucher("object", "voucherType", RawText("sale", TRUE), "voucherNumber",
                 RawText("1", TRUE), "date", RawDate("iso", Day1), "b"),
      RawVoucher("object", "VOUCHERTYPENAME", RawText("Sales", FALSE), "VOUCHERNUMBER",
                 RawText("1", FALSE), "DATE", RawDate("dmy", Day1), "c"),
      RawVoucher("object", "vouchertypename", RawText("SALES", FALSE), "vouchernumber",
                 RawText("1", FALSE), "date", RawDate("compact", Day1), "d"),
      (* keys that differ from it in one component *)
      RawVoucher("object", "vouchertypename", RawText("Purchase", FALSE), "vouchernumber",
                 RawText("1", FALSE), "date", RawDate("compact", Day1), "e"),
      RawVoucher("object", "vouchertypename", RawText("SALES", FALSE), "vouchernumber",
                 RawText("2", FALSE), "date", RawDate("compact", Day1), "f"),
      RawVoucher("object", "vouchertypename", RawText("SALES", FALSE), "vouchernumber",
                 RawText("1", FALSE), "date", RawDate("compact", Day2), "g"),
      (* key Other|1|2024-04-01: an unknown type name, and no type name *)
      RawVoucher("object", "vouchertypename", RawText("Memo", FALSE), "vouchernumber",
                 RawText("1", FALSE), "date", RawDate("iso", Day1), "h"),
      RawVoucher("object", "none", RawText("", FALSE), "vouchernumber",
                 RawText("1", FALSE), "date", RawDate("iso", Day1), "i"),
      (* records that yield no voucher *)
      RawVoucher("object", "vouchertypename", RawText("SALES", FALSE), "vouchernumber",
                 RawText("1", FALSE), "date", RawDate("garbage", Day1), "j"),
      RawVoucher("object", "vouchertypename", RawText("SALES", FALSE), "vouchernumber",
                 RawText("1", FALSE), "none", RawDate("empty", Day1), "k"),
      RawVoucher("badlines", "vouchertypename", RawText("SALES", FALSE), "vouchernumber",
                 RawText("1", FALSE), "date", RawDate("compact", Day1), "l"),
      RawVoucher("nonobject", "none", RawText("", FALSE), "none",
                 RawText("", FALSE), "none", RawDate("empty", Day1), "m") }

-----------------------------------------------------------------------------
(* Operations of the parser *)

ParseTransactions ==
    /\ parsed = Absent
    /\ parsed' = Some(parseTransactions(rawVouchers))
    /\ UNCHANGED rawVouchers
    /\ UNCHANGED otherThanParse

InitParse ==
    /\ rawVouchers \in SeqsUpTo(RawVouchers, MaxRaw)
    /\ parsed = Absent
    /\ vouchers = <<>>
    /\ ReplayIdle
    /\ AgingIdle
    /\ StoreIdle
    /\ IngestIdle
    /\ PredictionIdle
    /\ DisplayIdle
    /\ ReconIdle
    /\ AcceptIdle
    /\ OverrideIdle
    /\ IndexedIdle
    /\ BodyIdle
    /\ UpsellIdle
    /\ MergeIdle
    /\ TurnoverIdle

NextParse == ParseTransactions

SpecParse == InitParse /\ [][NextParse]_vars

-----------------------------------------------------------------------------
(* Properties of the parser *)

(* The raw records that compute a voucher key, and the first record of each key *)
Keyed == {i \in 1..Len(rawVouchers) : parseOneVoucher(rawVouchers[i]).outcome = "voucher"}
KeyOf(i) == parseOneVoucher(rawVouchers[i]).voucher.voucherId
FirstOfKey == {i \in Keyed : \A j \in Keyed : j < i => KeyOf(j) # KeyOf(i)}
NthFirst(k) == CHOOSE i \in FirstOfKey : Cardinality({j \in FirstOfKey : j <= i}) = k

(* C10: of the raw records of one batch that compute the same voucher key only the first
   in document order is kept, so the returned vouchers have pairwise distinct keys *)
C10_FirstOccurrenceWins ==
    parsed # Absent =>
        LET vs == parsed[1].vouchers IN
        /\ \A a, b \in 1..Len(vs) : a # b => vs[a].voucherId # vs[b].voucherId
        /\ Len(vs) = Cardinality(FirstOfKey)
        /\ \A k \in 1..Len(vs) :
             /\ vs[k].voucherId = KeyOf(NthFirst(k))
             /\ vs[k].narration = rawVouchers[NthFirst(k)].narration

C10_Witness ==
    /\ parsed # Absent
    /\ Len(rawVouchers) = 3
    /\ Keyed = {1, 2, 3}
    /\ KeyOf(1) = KeyOf(3)
    /\ KeyOf(2) # KeyOf(1)
    /\ rawVouchers[1].vouchertypename # rawVouchers[3].vouchertypename
    /\ Len(parsed[1].vouchers) = 2
    /\ parsed[1].vouchers[1].narration = rawVouchers[1].narration

-----------------------------------------------------------------------------
(* Data store: src/src/store/dataStore.ts, src/src/utils/applyOverrides.ts *)

ParsedData(company, items, ledgerMap, vs, sourceFiles, warnings) ==
    [company |-> company, items |-> items, ledgers |-> ledgerMap, vouchers |-> vs,
     sourceFiles |-> sourceFiles, warnings |-> warnings]

(* { ...rec, ...fields } *)
Spread(rec, fields) ==
    [f \in (DOMAIN rec) \cup (DOMAIN fields) |-> IF f \in DOMAIN fields THEN fields[f] ELSE rec[f]]

applyOverridesToItem(itm, unitOverride, rateOverride) ==
    LET withUnit ==
            IF unitOverride = Absent THEN itm
            ELSE Spread(itm, [pkgUnit |-> IF unitOverride[1].pkgUnit = "Not Applicable"
                                          THEN Absent ELSE Some(unitOverride[1].pkgUnit),
                              unitsPerPkg |-> unitOverride[1].unitsPerPkg])
    IN IF rateOverride = Absent THEN withUnit
       ELSE Spread(withUnit, [openingRate |-> rateOverride[1].unitRate])

applyOverridesToItems(items, unitOverrides, rateOverrides) ==
    [id \in DOMAIN items |->
        applyOverridesToItem(items[id],
                             IF id \in DOMAIN unitOverrides THEN Some(unitOverrides[id]) ELSE Absent,
                             IF id \in DOMAIN rateOverrides THEN Some(rateOverrides[id]) ELSE Absent)]

(* The store after setData(d) *)
setData(d, unitOverrides, rateOverrides) ==
    [rawData |-> Some(d),
     data |-> Some([d EXCEPT !.items = applyOverridesToItems(d.items, unitOverrides, rateOverrides)])]

(* vMap.set(v.voucherId, v) on a Map kept in insertion order *)
MapSet(vMap, v) ==
    IF \E k \in 1..Len(vMap) : vMap[k].voucherId = v.voucherId
    THEN [k \in 1..Len(vMap) |-> IF vMap[k].voucherId = v.voucherId THEN v ELSE vMap[k]]
    ELSE Append(vMap, v)

MapHas(vMap, id) == \E k \in 1..Len(vMap) : vMap[k].voucherId = id

(* Variant of MergeLoop: every voucher is appended, whatever its voucherId *)
RECURSIVE MergeLoopAppend(_, _)
MergeLoopAppend(acc, vs) ==
    IF vs = <<>> THEN acc
    ELSE MergeLoopAppend([vMap |-> Append(acc.vMap, Head(vs)),
                          newCount |-> acc.newCount + 1,
                          dupeCount |-> acc.dupeCount], Tail(vs))

(* The two loops that fill vMap, counting new and duplicate vouchers *)
RECURSIVE MergeLoop(_, _)
MergeLoop(acc, vs) ==
    IF vs = <<>> THEN acc
    ELSE LET v == Head(vs)
             dupe == MapHas(acc.vMap, v.voucherId)
         IN MergeLoop([vMap |-> MapSet(acc.vMap, v),
                       newCount |-> IF dupe THEN acc.newCount ELSE acc.newCount + 1,
                       dupeCount |-> IF dupe THEN acc.dupeCount + 1 ELSE acc.dupeCount],
                      Tail(vs))

(* a.date.localeCompare(b.date) < 0 on ISO dates *)
DateLess(a, b) ==
    \/ a[1] < b[1]
    \/ a[1] = b[1] /\ a[2] < b[2]
    \/ a[1] = b[1] /\ a[2] = b[2] /\ a[3] < b[3]

(* Array.prototype.sort is stable: v goes behind every voucher not dated after it *)
SortInsert(sorted, v) ==
    LET n == Cardinality({k \in 1..Len(sorted) : ~DateLess(v.date, sorted[k].date)})
    IN SubSeq(sorted, 1, n) \o <<v>> \o SubSeq(sorted, n + 1, Len(sorted))

RECURSIVE SortByDate(_)
SortByDate(vs) ==
    IF vs = <<>> THEN <<>> ELSE SortInsert(SortByDate(SubSeq(vs, 1, Len(vs) - 1)), vs[Len(vs)])

(* [...new Set(xs)] *)
RECURSIVE Unique(_)
Unique(xs) ==
    IF xs = <<>> THEN <<>>
    ELSE LET init == Unique(SubSeq(xs, 1, Len(xs) - 1))
             x == xs[Len(xs)]
         IN IF \E k \in 1..Len(init) : init[k] = x THEN init ELSE Append(init, x)

(* new Map([...a, ...b]) *)
MapMerge(a, b) ==
    [k \in (DOMAIN a) \cup (DOMAIN b) |-> IF k \in DOMAIN b THEN b[k] ELSE a[k]]

(* The store after mergeData(newData), cur being the rawData found *)
mergeData(cur, newData, unitOverrides, rateOverrides) ==
    IF cur = Absent THEN setData(newData, unitOverrides, rateOverrides)
    ELSE LET existing == MergeLoop([vMap |-> <<>>, newCount |-> 0, dupeCount |-> 0],
                                   cur[1].vouchers)
             merged == MergeLoop([vMap |-> existing.vMap, newCount |-> 0, dupeCount |-> 0],
                                 newData.vouchers)
             mergedRawData ==
                 ParsedData(IF newData.company # Absent THEN newData.company ELSE cur[1].company,
                            MapMerge(cur[1].items, newData.items),
                            MapMerge(cur[1].ledgers, newData.ledgers),
                            SortByDate(merged.vMap),
                            Unique(cur[1].sourceFiles \o newData.sourceFiles),
                            cur[1].warnings \o newData.warnings \o
                                <<[severity |-> "info", context |-> "merge",
                                   newCount |-> merged.newCount,
                                   dupeCount |-> merged.dupeCount]>>)
         IN setData(mergedRawData, unitOverrides, rateOverrides)

-----------------------------------------------------------------------------
(* Inputs of the data store *)

MaxBatch == 2
MaxAccepts == 2

StoreVoucher(vtype, number, date, total) ==
    CanonicalVoucher(vtype, number, date, total, FALSE, FALSE, <<>>)

(* Two versions of Sales|1|2024-04-02, and two other keys, one of them dated earlier *)
StoreVouchers ==
    { StoreVoucher("Sales", "1", Day2, 100),
      StoreVoucher("Sales", "1", Day2, 200),
      StoreVoucher("Purchase", "1", Day2, 100),
      StoreVoucher("Sales", "2", Day1, 50) }

DistinctIds(vs) == \A a, b \in 1..Len(vs) : a # b => vs[a].voucherId # vs[b].voucherId

(* Voucher lists as runImportFromParsed assembles them: parseTransactions output, or the
   saved vouchers followed by the parsed ones with other keys *)
BatchVouchers == {vs \in SeqsUpTo(StoreVouchers, MaxBatch) : DistinctIds(vs)}

Batches ==
    { ParsedData(Absent, [id \in {"A"} |-> CanonicalItem("A", 0)], EmptyMap, vs,
                 <<"tx.json">>, <<>>) : vs \in BatchVouchers }
    \cup
    { ParsedData(Some("MK Cycles"),
                 [id \in {"A", "B"} |-> CanonicalItem(id, 100)],
                 [id \in {"L"} |-> CanonicalLedger("L", Some(30))],
                 <<StoreVoucher("Sales", "1", Day2, 200)>>,
                 <<"masters.json", "tx.json">>,
                 <<[severity |-> "warn", context |-> "voucher"]>>) }

-----------------------------------------------------------------------------
(* Operations on the data store *)

(* Dashboard.runImportFromParsed: setPendingData(data) *)
RunImport ==
    \E d \in Batches :
        /\ pendingData' = Some(d)
        /\ repeats' = 0
        /\ UNCHANGED <<rawData, data, units, rates, accepts>>
        /\ UNCHANGED otherThanStore

(* Dashboard.acceptData: mergeData(pendingData) *)
AcceptData ==
    /\ pendingData # Absent
    /\ accepts < MaxAccepts
    /\ LET store == mergeData(rawData, pendingData[1], units, rates)
       IN /\ rawData' = store.rawData
          /\ data' = store.data
    /\ accepts' = accepts + 1
    /\ repeats' = repeats + 1
    /\ UNCHANGED <<units, rates, pendingData>>
    /\ UNCHANGED otherThanStore

(* Settings.handleClearData: clearData() *)
ClearData ==
    /\ rawData # Absent
    /\ rawData' = Absent
    /\ data' = Absent
    /\ repeats' = 0
    /\ UNCHANGED <<units, rates, pendingData, accepts>>
    /\ UNCHANGED otherThanStore

(* App start and Settings.handleRestoreBackup: setData of saved data *)
RestoreData ==
    \E d \in Batches :
        /\ accepts = 0
        /\ LET store == setData(d, units, rates)
           IN /\ rawData' = store.rawData
              /\ data' = store.data
        /\ repeats' = 0
        /\ UNCHANGED <<units, rates, pendingData, accepts>>
        /\ UNCHANGED otherThanStore

InitStore ==
    /\ StoreIdle
    /\ vouchers = <<>>
    /\ ReplayIdle
    /\ AgingIdle
    /\ ParseIdle
    /\ IngestIdle
    /\ PredictionIdle
    /\ DisplayIdle
    /\ ReconIdle
    /\ AcceptIdle
    /\ OverrideIdle
    /\ IndexedIdle
    /\ BodyIdle
    /\ UpsellIdle
    /\ MergeIdle
    /\ TurnoverIdle

NextStore == RunImport \/ AcceptData \/ ClearData \/ RestoreData

SpecStore == InitStore /\ [][NextStore]_vars

-----------------------------------------------------------------------------
(* Properties of the data store *)

(* C9: when the store merges the batch it merged last once more, the number of stored
   vouchers does not change, whatever the store held before the first merge *)
C9_MergeTwiceSameCount ==
    [][(accepts' = accepts + 1 /\ repeats >= 1)
           => Len(rawData'[1].vouchers) = Len(rawData[1].vouchers)]_vars

(* The same batch has been merged twice into a store that held other vouchers, and it
   shares a key with them *)
C9_Witness ==
    /\ repeats = 2
    /\ Len(pendingData[1].vouchers) = 2
    /\ Len(rawData[1].vouchers) = 3
    /\ \E k \in 1..3 : rawData[1].vouchers[k].totalAmount = 200
    /\ pendingData[1].vouchers[1].totalAmount = 200

-----------------------------------------------------------------------------
(* Document shapes of the parser: src/src/parser/transactionParser.ts *)

(* A raw document is [shape, entries, stockItems, ledgers].  shape is "nonobject" (null, a
   number, a string), "tallymessage" ({ tallymessage: entries }), "ENVELOPE" (entries are
   the messages under ENVELOPE.BODY.IMPORTDATA.REQUESTDATA.TALLYMESSAGE), "vouchers"
   ({ vouchers: entries }), "array" (entries itself), "masters"
   ({ stockItems, ledgers, company }) or "unknown" (an object with none of these keys). *)
Document(shape, entries, stockItems, ledgerRecords, company) ==
    [shape |-> shape, entries |-> entries, stockItems |-> stockItems, ledgers |-> ledgerRecords,
     company |-> company]

ImportWarning(severity, context) == [severity |-> severity, context |-> context]

(* formatDate: parseDate(v) ?? "" *)
formatDate(v) ==
    LET d == parseDate(v)
    IN IF d = Absent THEN RawDate("empty", <<0, 0, 0>>) ELSE RawDate("iso", d[1])

(* An ENVELOPE voucher whose ledger entries hold a null makes the conversion throw *)
EnvelopeVoucherThrows(tv) == tv.kind = "badentries"

tallyEnvelopeVoucherToSimple(tv) ==
    [kind |-> "object",
     vouchertypename |-> Absent, voucherType |-> tv.VOUCHERTYPENAME, VOUCHERTYPENAME |-> Absent,
     vouchernumber |-> Absent,
     voucherNumber |-> IF tv.VOUCHERNUMBER # Absent THEN tv.VOUCHERNUMBER ELSE tv.REFERENCE,
     VOUCHERNUMBER |-> Absent,
     date |-> Some(formatDate(tv.DATE)), DATE |-> Absent,
     narration |-> tv.NARRATION]

(* The filter of Format 1 *)
IsTallyMessageVoucher(m) ==
    /\ m.kind # "nonobject"
    /\ m.metaType \in {Absent, Some("Voucher")}
    /\ \/ m.date # Absent /\ m.date[1].fmt # "empty"
       \/ m.DATE # Absent /\ m.DATE[1].fmt # "empty"

(* The filter of Format 2 *)
HasVoucher(m) == m.kind # "nonobject" /\ m.VOUCHER # Absent

VoucherOfMessage(m) == tallyEnvelopeVoucherToSimple(m.VOUCHER[1])

MapSeq(Op(_), xs) == [k \in 1..Len(xs) |-> Op(xs[k])]

normalizeTransactionInput(doc) ==
    IF doc.shape = "nonobject" THEN [rawVouchers |-> <<>>, warnings |-> <<>>]
    ELSE IF doc.shape = "tallymessage"
    THEN [rawVouchers |-> SelectSeq(doc.entries, IsTallyMessageVoucher),
          warnings |-> <<ImportWarning("info", "parser")>>]
    ELSE IF doc.shape = "ENVELOPE"
            /\ \A k \in 1..Len(doc.entries) :
                  HasVoucher(doc.entries[k]) => ~EnvelopeVoucherThrows(doc.entries[k].VOUCHER[1])
    THEN [rawVouchers |-> MapSeq(VoucherOfMessage, SelectSeq(doc.entries, HasVoucher)),
          warnings |-> <<>>]
    ELSE IF doc.shape \in {"vouchers", "array"}
    THEN [rawVouchers |-> doc.entries, warnings |-> <<>>]
    ELSE [rawVouchers |-> <<>>, warnings |-> <<>>]

(* parseTransactions(raw): the loop run over the normalized document *)
parseTransactionsOfDocument(doc) ==
    LET n == normalizeTransactionInput(doc)
    IN ParseLoop([vouchers |-> <<>>, warnings |-> n.warnings], {}, n.rawVouchers)

-----------------------------------------------------------------------------
(* Masters parser: src/src/parser/transactionParser.ts *)

(* A raw numeric value is [kind, n]: "number" (the JS number n), "numeric" (a string that
   reads n, blanks allowed, "0" included), "unit" (a string such as "n PC"), "empty" (""),
   "word" (a string without digits) or "nan" (NaN) *)
RawNumber(kind, n) == [kind |-> kind, n |-> n]

parseNumber(v) ==
    IF v = Absent THEN 0
    ELSE IF v[1].kind \in {"number", "numeric", "unit"} THEN v[1].n
    ELSE 0

(* Number(v) of a present value *)
ToNumber(v) ==
    IF v.kind \in {"number", "numeric"} THEN RawNumber("number", v.n)
    ELSE IF v.kind = "empty" THEN RawNumber("number", 0)
    ELSE RawNumber("nan", 0)

(* JS truthiness of a present numeric value *)
Truthy(v) ==
    CASE v.kind = "number" -> v.n # 0
      [] v.kind \in {"empty", "nan"} -> FALSE
      [] OTHER -> TRUE

(* s.toLowerCase().includes("not applicable") on the unit names of the model *)
IsNotApplicable(text) == text \in {"Not Applicable", "NOT APPLICABLE", "not applicable"}

(* toUpperCase() on the names of the model *)
Upper(text) ==
    CASE text \in {"pkg", "Pkg", "PKG"} -> "PKG"
      [] text \in {"Bell", "bell", "BELL"} -> "BELL"
      [] text \in {"Tyre", "TYRE"} -> "TYRE"
      [] text \in {"Rao", "RAO"} -> "RAO"
      [] text \in {"Sen", "SEN"} -> "SEN"
      [] text \in {"Not Applicable", "NOT APPLICABLE", "not applicable"} -> "NOT APPLICABLE"
      [] OTHER -> text

SimpleItem(name, group, pkgUnit, unitsPerPkg, openingQty) ==
    [kind |-> "object", name |-> name, group |-> group, pkgUnit |-> pkgUnit,
     unitsPerPkg |-> unitsPerPkg, denominator |-> Absent, openingQty |-> openingQty]

SimpleLedger(name, creditDays) ==
    [kind |-> "object", name |-> name, creditDays |-> creditDays]

(* A tallymessage stock item whose gstdetails hold a null rate makes the conversion throw *)
RealStockItemThrows(msg) == msg.kind = "badgst"

tallyRealStockItemToSimple(msg) ==
    LET addlUnits == IF msg.additionalunits = Absent THEN "" ELSE msg.additionalunits[1].text
        hasAddlUnits == addlUnits # "" /\ ~IsNotApplicable(addlUnits)
        denom == IF msg.denominator = Absent THEN 1 ELSE parseNumber(msg.denominator)
        openingBal == IF msg.openingbalance = Absent THEN 0 ELSE parseNumber(msg.openingbalance)
    IN SimpleItem(IF msg.metaName # Absent THEN msg.metaName ELSE Some(RawText("", FALSE)),
                  Some(IF msg.parent = Absent THEN "Ungrouped" ELSE msg.parent[1]),
                  IF hasAddlUnits THEN Some(RawText(addlUnits, FALSE)) ELSE Absent,
                  Some(RawNumber("number", IF hasAddlUnits /\ denom > 0 THEN denom ELSE 1)),
                  Some(RawNumber("number", openingBal)))

tallyRealLedgerToSimple(msg) ==
    SimpleLedger(IF msg.metaName # Absent THEN msg.metaName ELSE Some(RawText("", FALSE)),
                 Some(RawNumber("number", IF msg.creditperiod = Absent \/ ~Truthy(msg.creditperiod[1])
                                          THEN 0
                                          ELSE IF msg.creditperiod[1].kind \in {"number", "numeric", "unit"}
                                               THEN msg.creditperiod[1].n ELSE 0)))

tallyEnvelopeStockItemToSimple(t) ==
    SimpleItem(t.NAME, t.PARENT, t.ADDITIONALUNITS,
               Some(IF t.DENOMINATOR # Absent /\ Truthy(t.DENOMINATOR[1])
                    THEN ToNumber(t.DENOMINATOR[1]) ELSE RawNumber("number", 1)),
               Some(RawNumber("number", parseNumber(t.OPENINGBALANCE))))

tallyEnvelopeLedgerToSimple(t) ==
    SimpleLedger(t.NAME,
                 Some(RawNumber("number", IF t.CREDITPERIOD = Absent THEN 0
                                          ELSE parseNumber(t.CREDITPERIOD))))

(* parseOneItem: null, or the item with the warnings pushed *)
parseOneItem(r) ==
    IF r.kind = "nonobject" \/ r.name = Absent \/ r.name[1].text = ""
    THEN [outcome |-> "null", warnings |-> <<>>]
    ELSE LET name == r.name[1].text
             unitsPerPkg == parseNumber(IF r.unitsPerPkg # Absent THEN r.unitsPerPkg
                                        ELSE IF r.denominator # Absent THEN r.denominator
                                        ELSE Some(RawNumber("number", 1)))
             pkgUnit == IF r.pkgUnit = Absent \/ (r.pkgUnit[1].text = "" /\ ~r.pkgUnit[1].padded)
                        THEN Absent
                        ELSE IF r.pkgUnit[1].text # "" /\ ~IsNotApplicable(r.pkgUnit[1].text)
                        THEN Some(Upper(r.pkgUnit[1].text))
                        ELSE Absent
         IN [outcome |-> "item",
             warnings |-> IF r.group = Absent
                          THEN <<ImportWarning("info", "item")>> ELSE <<>>,
             item |-> [itemId |-> Upper(name), name |-> name,
                       group |-> OrElse(r.group, "Ungrouped"),
                       pkgUnit |-> pkgUnit,
                       unitsPerPkg |-> IF unitsPerPkg > 0 THEN unitsPerPkg ELSE 1,
                       openingQtyBase |-> parseNumber(r.openingQty)]]

parseOneLedger(r) ==
    IF r.kind = "nonobject" \/ r.name = Absent \/ r.name[1].text = ""
    THEN Absent
    ELSE Some([ledgerId |-> Upper(r.name[1].text), name |-> r.name[1].text,
               creditDays |-> parseNumber(r.creditDays)])

IsStockItemMessage(m) ==
    m.kind # "nonobject" /\ m.metaType \in {Some("Stock Item"), Some("STOCKITEM")}
IsLedgerMessage(m) ==
    m.kind # "nonobject" /\ m.metaType \in {Some("Ledger"), Some("LEDGER")}
IsCompanyMessage(m) ==
    m.kind # "nonobject" /\ m.metaType \in {Some("Company"), Some("COMPANY")}

HasStockItem(m) == m.STOCKITEM # Absent
HasLedger(m) == m.LEDGER # Absent
HasCompany(m) == m.COMPANY # Absent
StockItemOfMessage(m) == tallyEnvelopeStockItemToSimple(m.STOCKITEM[1])
LedgerOfMessage(m) == tallyEnvelopeLedgerToSimple(m.LEDGER[1])

(* company = msg of the last Company message *)
LastCompany(ms) ==
    IF ms = <<>> THEN Absent ELSE Some(ms[Len(ms)])

(* What Format 2 returns: { stockItems, ledgersArr, company }, so `ledgers` is undefined *)
EnvelopeMasters(doc) ==
    [outcome |-> "ok",
     stockItems |-> MapSeq(StockItemOfMessage, SelectSeq(doc.entries, HasStockItem)),
     ledgers |-> <<>>,
     company |-> LastCompany(SelectSeq(doc.entries, HasCompany)),
     warnings |-> <<>>]

normalizeMasterInput(doc) ==
    IF doc.shape = "nonobject"
    THEN [outcome |-> "ok", stockItems |-> <<>>, ledgers |-> <<>>, company |-> Absent,
          warnings |-> <<>>]
    ELSE IF doc.shape = "tallymessage"
    THEN IF \E k \in 1..Len(doc.entries) :
                IsStockItemMessage(doc.entries[k]) /\ RealStockItemThrows(doc.entries[k])
         THEN [outcome |-> "throw"]
         ELSE LET stockItems == MapSeq(tallyRealStockItemToSimple,
                                       SelectSeq(doc.entries, IsStockItemMessage))
                  ledgerRecords == MapSeq(tallyRealLedgerToSimple,
                                          SelectSeq(doc.entries, IsLedgerMessage))
              IN [outcome |-> "ok", stockItems |-> stockItems, ledgers |-> ledgerRecords,
                  company |-> LastCompany(SelectSeq(doc.entries, IsCompanyMessage)),
                  warnings |-> IF stockItems = <<>> /\ ledgerRecords = <<>>
                               THEN <<ImportWarning("warn", "parser")>> ELSE <<>>]
    ELSE IF doc.shape = "ENVELOPE" /\ \A k \in 1..Len(doc.entries) : doc.entries[k].kind # "nonobject"
    THEN EnvelopeMasters(doc)
    ELSE [outcome |-> "ok", stockItems |-> doc.stockItems, ledgers |-> doc.ledgers,
          company |-> doc.company, warnings |-> <<>>]

RECURSIVE ItemLoop(_, _)
ItemLoop(acc, rs) ==
    IF rs = <<>> THEN acc
    ELSE LET r == parseOneItem(Head(rs))
         IN ItemLoop([items |-> IF r.outcome = "item"
                                THEN [id \in (DOMAIN acc.items) \cup {r.item.itemId} |->
                                         IF id = r.item.itemId THEN r.item ELSE acc.items[id]]
                                ELSE acc.items,
                      warnings |-> acc.warnings \o r.warnings],
                     Tail(rs))

RECURSIVE LedgerLoop(_, _)
LedgerLoop(acc, rs) ==
    IF rs = <<>> THEN acc
    ELSE LET r == parseOneLedger(Head(rs))
         IN LedgerLoop(IF r = Absent THEN acc
                       ELSE [id \in (DOMAIN acc) \cup {r[1].ledgerId} |->
                                IF id = r[1].ledgerId THEN r[1] ELSE acc[id]],
                       Tail(rs))

parseMasters(doc) ==
    LET normalized == normalizeMasterInput(doc) IN
    IF normalized.outcome = "throw" THEN [outcome |-> "throw"]
    ELSE LET itemsDone == ItemLoop([items |-> EmptyMap, warnings |-> normalized.warnings],
                                   normalized.stockItems)
             ledgersDone == LedgerLoop(EmptyMap, normalized.ledgers)
         IN [outcome |-> "ok",
             company |-> normalized.company,
             items |-> itemsDone.items,
             ledgers |-> ledgersDone,
             warnings |-> itemsDone.warnings \o
                          IF DOMAIN itemsDone.items = {} /\ DOMAIN ledgersDone = {}
                          THEN <<ImportWarning("warn", "parser")>> ELSE <<>>]

-----------------------------------------------------------------------------
(* Inputs of document ingestion *)

MaxEntries == 2

(* Raw vouchers in the simple form: two well-formed ones and three malformed ones *)
GoodVoucher1 ==
    RawVoucher("object", "vouchertypename", RawText("SALES", FALSE), "vouchernumber",
               RawText("1", FALSE), "date", RawDate("compact", Day1), "a")
GoodVoucher2 ==
    RawVoucher("object", "voucherType", RawText("Purchase", FALSE), "voucherNumber",
               RawText("2", TRUE), "DATE", RawDate("dmy", Day2), "b")
BadDateVoucher ==
    RawVoucher("object", "vouchertypename", RawText("SALES", FALSE), "vouchernumber",
               RawText("3", FALSE), "date", RawDate("garbage", Day1), "c")
NoDateVoucher ==
    RawVoucher("object", "vouchertypename", RawText("SALES", FALSE), "vouchernumber",
               RawText("4", FALSE), "none", RawDate("empty", Day1), "d")
ThrowingVoucher ==
    RawVoucher("badlines", "vouchertypename", RawText("SALES", FALSE), "vouchernumber",
               RawText("5", FALSE), "date", RawDate("compact", Day1), "e")
NullEntry ==
    RawVoucher("nonobject", "none", RawText("", FALSE), "none",
               RawText("", FALSE), "none", RawDate("empty", Day1), "")

SimpleVouchers ==
    {GoodVoucher1, GoodVoucher2, BadDateVoucher, NoDateVoucher, ThrowingVoucher, NullEntry}

(* tallymessage entries: a raw voucher or a master record under metadata *)
TallyMessage(rv, metaType, metaName, additionalunits, denominator, creditperiod) ==
    Spread(rv, [metaType |-> metaType, metaName |-> metaName, parent |-> Absent,
                additionalunits |-> additionalunits, denominator |-> denominator,
                openingbalance |-> Absent, creditperiod |-> creditperiod])

TallyVoucher(rv, metaType) == TallyMessage(rv, metaType, Absent, Absent, Absent, Absent)

TallyStockItem(kind, name, additionalunits, denominator) ==
    TallyMessage([NullEntry EXCEPT !.kind = kind], Some("Stock Item"), name,
                 additionalunits, denominator, Absent)

TallyLedger(name, creditperiod) ==
    TallyMessage([NullEntry EXCEPT !.kind = "object"], Some("Ledger"), name,
                 Absent, Absent, creditperiod)

TallyMessages ==
    { TallyVoucher(GoodVoucher1, Some("Voucher")),
      TallyVoucher(GoodVoucher2, Absent),
      TallyVoucher(BadDateVoucher, Some("Voucher")),
      TallyVoucher(NoDateVoucher, Some("Voucher")),
      TallyVoucher(ThrowingVoucher, Some("Voucher")),
      TallyVoucher(NullEntry, Absent),
      TallyStockItem("object", Some(RawText("Bell", FALSE)), Some(RawText("PKG", TRUE)),
                     Some(RawNumber("numeric", 12))),
      TallyStockItem("object", Some(RawText("Tyre", FALSE)),
                     Some(RawText("Not Applicable", TRUE)), Some(RawNumber("numeric", 4))),
      TallyStockItem("object", Absent, Absent, Absent),
      TallyStockItem("badgst", Some(RawText("Bell", FALSE)), Absent, Absent),
      TallyLedger(Some(RawText("Rao", FALSE)), Some(RawNumber("unit", 30))),
      TallyLedger(Absent, Absent),
      TallyMessage([NullEntry EXCEPT !.kind = "object"], Some("Company"),
                   Some(RawText("MK Cycles", FALSE)), Absent, Absent, Absent) }

(* ENVELOPE messages *)
EnvelopeMessage(kind, voucher, stockItem, ledgerRecord, company) ==
    [kind |-> kind, VOUCHER |-> voucher, STOCKITEM |-> stockItem, LEDGER |-> ledgerRecord,
     COMPANY |-> company]

EnvelopeVoucher(kind, number, typeName, date, narration) ==
    [kind |-> kind, VOUCHERNUMBER |-> number, REFERENCE |-> Absent, VOUCHERTYPENAME |-> typeName,
     DATE |-> date, NARRATION |-> narration]

EnvelopeStockItem(name, additionalUnits, denominator) ==
    [NAME |-> name, PARENT |-> Some("Parts"), ADDITIONALUNITS |-> additionalUnits,
     DENOMINATOR |-> denominator, OPENINGBALANCE |-> Absent]

EnvelopeLedger(name, creditPeriod) == [NAME |-> name, CREDITPERIOD |-> creditPeriod]

EnvelopeMessages ==
    { EnvelopeMessage("object",
          Some(EnvelopeVoucher("object", Some(RawText("1", FALSE)), Some(RawText("Sales", FALSE)),
                               Some(RawDate("compact", Day1)), "a")), Absent, Absent, Absent),
      EnvelopeMessage("object",
          Some(EnvelopeVoucher("object", Some(RawText("2", FALSE)), Some(RawText("Purchase", FALSE)),
                               Some(RawDate("compact", Day2)), "b")), Absent, Absent, Absent),
      EnvelopeMessage("object",
          Some(EnvelopeVoucher("object", Some(RawText("3", FALSE)), Some(RawText("Sales", FALSE)),
                               Some(RawDate("garbage", Day1)), "c")), Absent, Absent, Absent),
      EnvelopeMessage("object",
          Some(EnvelopeVoucher("badentries", Some(RawText("5", FALSE)), Some(RawText("Sales", FALSE)),
                               Some(RawDate("compact", Day1)), "e")), Absent, Absent, Absent),
      EnvelopeMessage("object", Absent,
          Some(EnvelopeStockItem(Some(RawText("Bell", FALSE)), Some(RawText("PKG", FALSE)),
                                 Some(RawNumber("numeric", 12)))), Absent, Absent),
      EnvelopeMessage("object", Absent,
          Some(EnvelopeStockItem(Some(RawText("Tyre", FALSE)), Some(RawText("Not Applicable", FALSE)),
                                 Some(RawNumber("numeric", 4)))), Absent, Absent),
      EnvelopeMessage("object", Absent,
          Some(EnvelopeStockItem(Some(RawText("Tyre", FALSE)), Absent,
                                 Some(RawNumber("unit", 4)))), Absent, Absent),
      EnvelopeMessage("object", Absent,
          Some(EnvelopeStockItem(Absent, Absent, Absent)), Absent, Absent),
      EnvelopeMessage("object", Absent, Absent,
          Some(EnvelopeLedger(Some(RawText("Rao", FALSE)), Some(RawNumber("numeric", 30)))), Absent),
      EnvelopeMessage("object", Absent, Absent,
          Some(EnvelopeLedger(Absent, Absent)), Absent),
      EnvelopeMessage("object", Absent, Absent, Absent, Some("MK Cycles")),
      EnvelopeMessage("nonobject", Absent, Absent, Absent, Absent) }

(* Master records in the simple form *)
SimpleItems ==
    { SimpleItem(Some(RawText("Bell", FALSE)), Some("Parts"), Some(RawText("pkg", FALSE)),
                 Some(RawNumber("number", 12)), Some(RawNumber("number", 5))),
      SimpleItem(Some(RawText("bell", TRUE)), Absent, Some(RawText("Not Applicable", FALSE)),
                 Some(RawNumber("number", 4)), Absent),
      SimpleItem(Some(RawText("Tyre", FALSE)), Some("Parts"), Some(RawText("", TRUE)),
                 Some(RawNumber("number", 0)), Absent),
      SimpleItem(Some(RawText("Tyre", FALSE)), Some("Parts"), Some(RawText("PKG", FALSE)),
                 Some(RawNumber("word", 0)), Absent),
      SimpleItem(Absent, Some("Parts"), Absent, Absent, Absent),
      [SimpleItem(Absent, Absent, Absent, Absent, Absent) EXCEPT !.kind = "nonobject"] }

SimpleLedgers ==
    { SimpleLedger(Some(RawText("Rao", FALSE)), Some(RawNumber("number", 30))),
      SimpleLedger(Some(RawText("Sen", TRUE)), Absent),
      SimpleLedger(Absent, Absent) }

Documents ==
    { Document("tallymessage", es, <<>>, <<>>, Absent) : es \in SeqsUpTo(TallyMessages, MaxEntries) }
    \cup
    { Document("ENVELOPE", es, <<>>, <<>>, Absent) : es \in SeqsUpTo(EnvelopeMessages, MaxEntries) }
    \cup
    { Document(shape, es, <<>>, <<>>, Absent) :
        shape \in {"vouchers", "array"}, es \in SeqsUpTo(SimpleVouchers, MaxEntries) }
    \cup
    { Document("masters", <<>>, is, ls, c) :
        is \in SeqsUpTo(SimpleItems, MaxEntries), ls \in SeqsUpTo(SimpleLedgers, MaxEntries),
        c \in {Absent, Some("MK Cycles")} }
    \cup
    { Document("unknown", <<>>, <<>>, <<>>, Absent),
      Document("nonobject", <<>>, <<>>, <<>>, Absent) }

-----------------------------------------------------------------------------
(* Operations of document ingestion *)

(* parseTransactions(raw) *)
ParseTransactionsDocument ==
    /\ parsed = Absent
    /\ rawVouchers' = normalizeTransactionInput(rawDocument).rawVouchers
    /\ parsed' = Some(parseTransactionsOfDocument(rawDocument))
    /\ UNCHANGED <<rawDocument, masters>>
    /\ UNCHANGED otherThanParseAndIngest

(* parseMasters(raw) *)
ParseMasters ==
    /\ masters = Absent
    /\ masters' = Some(parseMasters(rawDocument))
    /\ UNCHANGED rawDocument
    /\ UNCHANGED otherThanIngest

InitIngest ==
    /\ rawDocument \in Documents
    /\ masters = Absent
    /\ vouchers = <<>>
    /\ ReplayIdle
    /\ AgingIdle
    /\ ParseIdle
    /\ StoreIdle
    /\ PredictionIdle
    /\ DisplayIdle
    /\ ReconIdle
    /\ AcceptIdle
    /\ OverrideIdle
    /\ IndexedIdle
    /\ BodyIdle
    /\ UpsellIdle
    /\ MergeIdle
    /\ TurnoverIdle

NextIngest == ParseTransactionsDocument \/ ParseMasters

SpecIngest == InitIngest /\ [][NextIngest]_vars

-----------------------------------------------------------------------------
(* Properties of document ingestion *)

WarnCount(ws) == Cardinality({k \in 1..Len(ws) : ws[k].severity = "warn"})

(* C11: a raw document that matches none of the known shapes yields, from parseMasters and
   from parseTransactions, no items, no ledgers and no vouchers, together with exactly one
   Import Warning of severity "warn" *)
C11_UnknownShapeOneWarning ==
    rawDocument.shape \in {"unknown", "nonobject"} =>
        /\ masters # Absent =>
             /\ masters[1].outcome = "ok"
             /\ DOMAIN masters[1].items = {}
             /\ DOMAIN masters[1].ledgers = {}
             /\ WarnCount(masters[1].warnings) = 1
        /\ parsed # Absent =>
             /\ parsed[1].vouchers = <<>>
             /\ WarnCount(parsed[1].warnings) = 1

(* The voucher records a recognized document carries, in the simple form; an ENVELOPE
   voucher whose conversion throws is kept as a record that cannot be parsed *)
VoucherRecords(doc) ==
    IF doc.shape = "tallymessage"
    THEN SelectSeq(doc.entries,
                   LAMBDA m : m.kind # "nonobject" /\ m.metaType \in {Absent, Some("Voucher")})
    ELSE IF doc.shape = "ENVELOPE"
    THEN MapSeq(LAMBDA m : IF EnvelopeVoucherThrows(m.VOUCHER[1]) THEN ThrowingVoucher
                           ELSE VoucherOfMessage(m),
                SelectSeq(doc.entries, HasVoucher))
    ELSE IF doc.shape \in {"vouchers", "array"}
    THEN SelectSeq(doc.entries, LAMBDA m : m.kind # "nonobject")
    ELSE <<>>

WellFormedVoucherKeys(doc) ==
    LET rs == VoucherRecords(doc)
    IN { parseOneVoucher(rs[k]).voucher.voucherId :
           k \in {j \in 1..Len(rs) : parseOneVoucher(rs[j]).outcome = "voucher"} }

MalformedVouchers(doc) ==
    LET rs == VoucherRecords(doc)
    IN Cardinality({j \in 1..Len(rs) : parseOneVoucher(rs[j]).outcome # "voucher"})

(* The master records a recognized document carries, in the simple form *)
ItemRecords(doc) ==
    IF doc.shape = "tallymessage"
    THEN MapSeq(LAMBDA m : IF RealStockItemThrows(m) THEN SimpleItem(Absent, Absent, Absent, Absent, Absent)
                           ELSE tallyRealStockItemToSimple(m),
                SelectSeq(doc.entries, IsStockItemMessage))
    ELSE IF doc.shape = "ENVELOPE"
    THEN MapSeq(StockItemOfMessage,
                SelectSeq(doc.entries, LAMBDA m : m.kind # "nonobject" /\ HasStockItem(m)))
    ELSE doc.stockItems

LedgerRecords(doc) ==
    IF doc.shape = "tallymessage"
    THEN MapSeq(tallyRealLedgerToSimple, SelectSeq(doc.entries, IsLedgerMessage))
    ELSE IF doc.shape = "ENVELOPE"
    THEN MapSeq(LedgerOfMessage,
                SelectSeq(doc.entries, LAMBDA m : m.kind # "nonobject" /\ HasLedger(m)))
    ELSE doc.ledgers

WellFormedItemKeys(doc) ==
    LET rs == ItemRecords(doc)
    IN { parseOneItem(rs[k]).item.itemId :
           k \in {j \in 1..Len(rs) : parseOneItem(rs[j]).outcome = "item"} }

WellFormedLedgerKeys(doc) ==
    LET rs == LedgerRecords(doc)
    IN { parseOneLedger(rs[k])[1].ledgerId :
           k \in {j \in 1..Len(rs) : parseOneLedger(rs[j]) # Absent} }

VoucherKeys(vs) == {vs[k].voucherId : k \in 1..Len(vs)}

(* C12: in every recognized document shape a malformed record never aborts the batch:
   every well-formed record of the document is returned, and every malformed voucher
   record is skipped and recorded as a "warn" Import Warning *)
C12_MalformedRecordNeverAborts ==
    rawDocument.shape \in {"tallymessage", "ENVELOPE", "vouchers", "array", "masters"} =>
        /\ parsed # Absent =>
             /\ WellFormedVoucherKeys(rawDocument) \subseteq VoucherKeys(parsed[1].vouchers)
             /\ WarnCount(parsed[1].warnings) >= MalformedVouchers(rawDocument)
        /\ masters # Absent =>
             /\ masters[1].outcome = "ok"
             /\ WellFormedItemKeys(rawDocument) \subseteq DOMAIN masters[1].items

(* The pre-normalized simple document that carries the records of an ENVELOPE document *)
PreNormalized(doc) ==
    Document("masters", <<>>, ItemRecords(doc), LedgerRecords(doc),
             LastCompany(SelectSeq(doc.entries, HasCompany)))

(* C13: a masters document in the ENVELOPE shape yields the same item keys and the same
   ledger keys as the simple document that carries the same records *)
C13_EnvelopeMastersAsSimple ==
    (/\ masters # Absent
     /\ rawDocument.shape = "ENVELOPE"
     /\ \A k \in 1..Len(rawDocument.entries) : rawDocument.entries[k].kind = "object") =>
        LET simple == parseMasters(PreNormalized(rawDocument))
        IN /\ DOMAIN masters[1].items = DOMAIN simple.items
           /\ DOMAIN masters[1].ledgers = DOMAIN simple.ledgers

(* C14: every item parseMasters returns has unitsPerPkg > 0, and unitsPerPkg = 1 when it
   has no package unit *)
C14_NoPackageUnitMeansOne ==
    (masters # Absent /\ masters[1].outcome = "ok") =>
        \A id \in DOMAIN masters[1].items :
            /\ masters[1].items[id].unitsPerPkg > 0
            /\ masters[1].items[id].pkgUnit = Absent => masters[1].items[id].unitsPerPkg = 1

-----------------------------------------------------------------------------
(* Prediction engine: src/src/engine/prediction.ts *)

(* The fields of a CanonicalItem that generatePredictions reads *)
PackagedItem(id, name, unitsPerPkg) ==
    [itemId |-> id, name |-> name, unitsPerPkg |-> unitsPerPkg]

(* Math.round(n / d) for d > 0: the nearest integer, halves towards +Infinity *)
RoundHalfUp(n, d) == (2 * n + d) \div (2 * d)

(* Round qty UP to nearest whole package; qty is already an integer here *)
roundToPackage(qty, unitsPerPkg) ==
    IF unitsPerPkg <= 1 THEN qty
    ELSE ((qty + unitsPerPkg - 1) \div unitsPerPkg) * unitsPerPkg

(* Both arguments are parsed as UTC midnights, so the difference is a whole number of days *)
daysBetween(a, b) == DayNumber(b) - DayNumber(a)

(* The calendar date of a day number: the inverse of DayNumber *)
DateOfDay(n) ==
    LET y == CHOOSE yy \in 1971..2099 :
                 DayNumber(<<yy, 1, 1>>) <= n /\ n < DayNumber(<<yy + 1, 1, 1>>)
        m == CHOOSE mm \in 1..12 :
                 /\ DayNumber(<<y, mm, 1>>) <= n
                 /\ (mm = 12 \/ n < DayNumber(<<y, mm + 1, 1>>))
    IN <<y, m, n - DayNumber(<<y, m, 1>>) + 1>>

(* The UTC dates whose midnight lies in the zone's summer time. Europe/Berlin in 2024:
   summer time runs from 2024-03-31 01:00Z to 2024-10-27 01:00Z *)
TimeZones == {"Asia/Kolkata", "Europe/Berlin"}
InSummerTime(tz, day) ==
    /\ tz = "Europe/Berlin"
    /\ DayNumber(<<2024, 4, 1>>) <= day
    /\ day <= DayNumber(<<2024, 10, 27>>)

(* new Date(dateStr) is a UTC midnight; setDate moves the LOCAL calendar date and keeps the
   local wall-clock time; toISOString().slice(0, 10) reads the UTC date again. When the
   start lies in winter time and the target in summer time the instant is 23:00Z of the
   day before *)
addDays(dateStr, n, tz) ==
    LET start == DayNumber(dateStr)
        target == start + n
    IN IF ~InSummerTime(tz, start) /\ InSummerTime(tz, target)
       THEN DateOfDay(target - 1)
       ELSE DateOfDay(target)

(* First loop of generatePredictions: the vouchers that count as orders *)
IsOrder(v, vtype) ==
    /\ v.voucherType = vtype
    /\ ~v.isCancelled
    /\ ~v.isOptional
    /\ v.partyLedgerId # Absent

(* partyOrders: the keys in insertion order, and the orders of one key *)
PartyOf(v) == v.partyLedgerId[1]
PartyKeys(orders) == Unique(MapSeq(PartyOf, orders))
OrdersOfParty(orders, partyId) == SelectSeq(orders, LAMBDA v : PartyOf(v) = partyId)

(* The positive gaps between consecutive order dates *)
Intervals(dates) ==
    LET diffs == [i \in 1..(Len(dates) - 1) |-> daysBetween(dates[i], dates[i + 1])]
    IN SelectSeq(diffs, LAMBDA d : d > 0)

(* ewma = 0.3 * intervals[i] + 0.7 * ewma, kept as the exact fraction num / den *)
RECURSIVE EwmaLoop(_, _)
EwmaLoop(ewma, rest) ==
    IF rest = <<>> THEN ewma
    ELSE EwmaLoop([num |-> 3 * Head(rest) * ewma.den + 7 * ewma.num, den |-> 10 * ewma.den],
                  Tail(rest))

Ewma(intervals) == EwmaLoop([num |-> intervals[1], den |-> 1], Tail(intervals))

(* Math.max(1, Math.round(ewma * 0.85)) *)
AggressiveInterval(ewma) == Max(1, RoundHalfUp(85 * ewma.num, 100 * ewma.den))

(* itemAgg: one entry per item id in insertion order *)
AggAdd(agg, line, items) ==
    LET id == line.itemId[1]
        qty == OrElse(line.qtyBase, 0)
    IN IF \E k \in 1..Len(agg) : agg[k].itemId = id
       THEN [k \in 1..Len(agg) |->
                IF agg[k].itemId = id
                THEN [agg[k] EXCEPT !.qty = Append(@, qty), !.count = @ + 1]
                ELSE agg[k]]
       ELSE Append(agg, [itemId |-> id, qty |-> <<qty>>, count |-> 1,
                         name |-> IF id \in DOMAIN items THEN items[id].name ELSE id])

RECURSIVE AggLines(_, _, _)
AggLines(agg, lines, items) ==
    IF lines = <<>> THEN agg
    ELSE LET line == Head(lines)
         IN IF line.type # "inventory" \/ line.itemId = Absent
            THEN AggLines(agg, Tail(lines), items)
            ELSE AggLines(AggAdd(agg, line, items), Tail(lines), items)

RECURSIVE AggVouchers(_, _, _)
AggVouchers(agg, sorted, items) ==
    IF sorted = <<>> THEN agg
    ELSE AggVouchers(AggLines(agg, Head(sorted).lines, items), Tail(sorted), items)

RECURSIVE SumSeq(_)
SumSeq(xs) == IF xs = <<>> THEN 0 ELSE Head(xs) + SumSeq(Tail(xs))

(* Compare last half average with first half average: trendRatio > 1.15, < 0.85 *)
TrendOf(qty) ==
    LET n == Len(qty)
        mid == n \div 2
        firstHalf == SubSeq(qty, 1, mid)
        secondHalf == SubSeq(qty, mid + 1, n)
        first == IF Len(firstHalf) > 0
                 THEN [num |-> SumSeq(firstHalf), den |-> Len(firstHalf)]
                 ELSE [num |-> SumSeq(qty), den |-> n]
        second == IF Len(secondHalf) > 0
                  THEN [num |-> SumSeq(secondHalf), den |-> Len(secondHalf)]
                  ELSE [num |-> SumSeq(qty), den |-> n]
        \* trendRatio = second / first as ratioNum / ratioDen, or 1 when firstAvg <= 0
        ratioNum == IF first.num > 0 THEN second.num * first.den ELSE 1
        ratioDen == IF first.num > 0 THEN second.den * first.num ELSE 1
    IN IF 100 * ratioNum > 115 * ratioDen THEN "up"
       ELSE IF 100 * ratioNum < 85 * ratioDen THEN "down"
       ELSE "stable"

(* trendMultiplier in hundredths *)
TrendMultiplier(trend) ==
    IF trend = "up" THEN 120 ELSE IF trend = "down" THEN 95 ELSE 105

(* The map callback that turns one itemAgg entry into a PartyItemPrediction *)
TopItem(agg, items) ==
    LET total == SumSeq(agg.qty)
        n == Len(agg.qty)
        trend == TrendOf(agg.qty)
        rounded == RoundHalfUp(total * TrendMultiplier(trend), n * 100)
    IN [itemId |-> agg.itemId,
        itemName |-> agg.name,
        frequency |-> agg.count,
        avgQtyBase |-> RoundHalfUp(total, n),
        lastQtyBase |-> agg.qty[n],
        predictedQtyBase |->
            IF agg.itemId \in DOMAIN items
            THEN roundToPackage(rounded, items[agg.itemId].unitsPerPkg)
            ELSE rounded,
        trend |-> trend]

(* .sort((a, b) => b.frequency - a.frequency): stable, descending *)
RECURSIVE SortByFrequency(_)
SortByFrequency(xs) ==
    IF xs = <<>> THEN <<>>
    ELSE LET init == SortByFrequency(SubSeq(xs, 1, Len(xs) - 1))
             x == xs[Len(xs)]
             n == Cardinality({k \in 1..Len(init) : init[k].frequency >= x.frequency})
         IN SubSeq(init, 1, n) \o <<x>> \o SubSeq(init, n + 1, Len(init))

TopItemsLimit == 15

TopItems(sorted, items) ==
    LET agg == AggVouchers(<<>>, sorted, items)
        all == SortByFrequency([k \in 1..Len(agg) |-> TopItem(agg[k], items)])
    IN SubSeq(all, 1, IF Len(all) < TopItemsLimit THEN Len(all) ELSE TopItemsLimit)

(* One pass of the loop over partyOrders: <<>> when the party is skipped, else the
   PartyOrderPattern pushed (interval, date and item fields) *)
PartyPattern(partyId, orders, items, now, tz) ==
    IF Len(orders) < 2 THEN <<>>
    ELSE LET sorted == SortByDate(orders)
             dates == [k \in 1..Len(sorted) |-> sorted[k].date]
             intervals == Intervals(dates)
         IN IF Len(intervals) = 0 THEN <<>>
            ELSE LET aggressiveInterval == AggressiveInterval(Ewma(intervals))
                     lastDate == dates[Len(dates)]
                     predictedNext == addDays(lastDate, aggressiveInterval, tz)
                     daysUntil == daysBetween(now, predictedNext)
                 IN << [partyLedgerId |-> partyId,
                        partyName |-> partyId,
                        orderDates |-> dates,
                        avgIntervalDays |-> RoundHalfUp(SumSeq(intervals), Len(intervals)),
                        lastOrderDate |-> lastDate,
                        predictedNextDate |-> predictedNext,
                        daysUntilPredicted |-> daysUntil,
                        isOverdue |-> daysUntil < 0,
                        topItems |-> TopItems(sorted, items)] >>

RECURSIVE PatternLoop(_, _, _, _, _)
PatternLoop(keys, orders, items, now, tz) ==
    IF keys = <<>> THEN <<>>
    ELSE PartyPattern(Head(keys), OrdersOfParty(orders, Head(keys)), items, now, tz)
             \o PatternLoop(Tail(keys), orders, items, now, tz)

(* predictions.sort((a, b) => a.daysUntilPredicted - b.daysUntilPredicted): stable *)
RECURSIVE SortByDaysUntil(_)
SortByDaysUntil(xs) ==
    IF xs = <<>> THEN <<>>
    ELSE LET init == SortByDaysUntil(SubSeq(xs, 1, Len(xs) - 1))
             x == xs[Len(xs)]
             n == Cardinality({k \in 1..Len(init) :
                                  init[k].daysUntilPredicted <= x.daysUntilPredicted})
         IN SubSeq(init, 1, n) \o <<x>> \o SubSeq(init, n + 1, Len(init))

generatePredictions(vs, items, vtype, now, tz) ==
    LET orders == SelectSeq(vs, LAMBDA v : IsOrder(v, vtype))
    IN SortByDaysUntil(PatternLoop(PartyKeys(orders), orders, items, now, tz))

(* First loop of scorePredictions: the new vouchers that count as actual orders *)
IsActual(v, vtype) ==
    /\ v.voucherType = vtype
    /\ ~v.isCancelled
    /\ v.partyLedgerId # Absent

(* actualItemQty: item id -> summed qtyBase over the inventory lines of the actuals *)
RECURSIVE ActualLines(_, _)
ActualLines(qtyMap, lines) ==
    IF lines = <<>> THEN qtyMap
    ELSE LET line == Head(lines)
         IN IF line.type # "inventory" \/ line.itemId = Absent
            THEN ActualLines(qtyMap, Tail(lines))
            ELSE ActualLines(AddTo(qtyMap, line.itemId[1], OrElse(line.qtyBase, 0)),
                             Tail(lines))

RECURSIVE ActualItemQty(_, _)
ActualItemQty(qtyMap, actuals) ==
    IF actuals = <<>> THEN qtyMap
    ELSE ActualItemQty(ActualLines(qtyMap, Head(actuals).lines), Tail(actuals))

(* Math.round(Math.max(0, 1 - err / total) * 100): a score in hundredths *)
ScoreHundredths(err, total) ==
    IF err >= total THEN 0 ELSE RoundHalfUp(100 * (total - err), total)

(* One pass of the loop over previousPredictions; the scores are in hundredths *)
ScoreOne(pred, newVs, vtype) ==
    LET actuals == SelectSeq(newVs, LAMBDA v : IsActual(v, vtype)
                                                 /\ PartyOf(v) = pred.partyLedgerId)
        after == SelectSeq(SortByDate(actuals),
                           LAMBDA v : DateLess(pred.lastOrderDate, v.date))
        found == Len(actuals) > 0 /\ after # <<>>
        dateDiff == daysBetween(pred.predictedNextDate, after[1].date)
        qtyMap == ActualItemQty(EmptyMap, actuals)
        predictedItemMap ==
            [k \in 1..Len(pred.topItems) |->
                [itemId |-> pred.topItems[k].itemId,
                 predictedQty |-> pred.topItems[k].predictedQtyBase,
                 actualQty |-> Get(qtyMap, pred.topItems[k].itemId)]]
        totalError == SumSeq([k \in 1..Len(predictedItemMap) |->
                                 Abs(predictedItemMap[k].predictedQty
                                         - predictedItemMap[k].actualQty)])
        totalPredicted == SumSeq([k \in 1..Len(predictedItemMap) |->
                                     predictedItemMap[k].predictedQty])
    IN [partyLedgerId |-> pred.partyLedgerId,
        partyName |-> pred.partyName,
        predictedDate |-> pred.predictedNextDate,
        actualDate |-> IF found THEN Some(after[1].date) ELSE Absent,
        dateDiffDays |-> IF found THEN Some(dateDiff) ELSE Absent,
        predictedItems |-> IF Len(actuals) > 0 THEN predictedItemMap ELSE <<>>,
        dateAccuracyScore |->
            IF found
            THEN ScoreHundredths(Abs(dateDiff),
                                 IF pred.avgIntervalDays = 0 THEN 30 ELSE pred.avgIntervalDays)
            ELSE 0,
        itemAccuracyScore |->
            IF Len(actuals) > 0 /\ totalPredicted > 0
            THEN ScoreHundredths(totalError, totalPredicted)
            ELSE 0]

scorePredictions(previousPredictions, newVs, vtype) ==
    [k \in 1..Len(previousPredictions) |-> ScoreOne(previousPredictions[k], newVs, vtype)]

(* Inputs of the prediction engine *)

MaxOrders == 4
MaxHistory == 2
MaxNew == 2

(* The sub-list of xs at the positions in S, in list order *)
SubSeqAt(xs, S) ==
    LET idx == SelectSeq([i \in 1..Len(xs) |-> i], LAMBDA i : i \in S)
    IN [k \in 1..Len(idx) |-> xs[idx[k]]]

SubLists(xs, max) ==
    {SubSeqAt(xs, S) : S \in {T \in SUBSET (1..Len(xs)) : Cardinality(T) <= max}}

Order(vtype, number, date, party, lines) ==
    WithParty(CanonicalVoucher(vtype, number, date, 0, FALSE, FALSE, lines), party)

(* Party P orders A and B every ten days from 2024-03-01, party Q twice on one day *)
OrderVouchers ==
    << Order("Sales", 4, <<2024, 3, 31>>, "P", <<InventoryLine("A", Some(12))>>),
       Order("Sales", 1, <<2024, 3, 1>>, "P", <<InventoryLine("A", Some(6))>>),
       Order("Sales", 6, <<2024, 3, 5>>, "Q", <<InventoryLine("C", Some(3))>>),
       Order("Sales", 2, <<2024, 3, 11>>, "P",
             <<InventoryLine("A", Some(6)), InventoryLine("B", Some(10))>>),
       Order("Purchase", 9, <<2024, 3, 7>>, "P", <<InventoryLine("A", Some(20))>>),
       Order("Sales", 7, <<2024, 3, 5>>, "Q", <<InventoryLine("A", Some(4))>>),
       Order("Sales", 3, <<2024, 3, 21>>, "P", <<InventoryLine("A", Some(7))>>),
       Order("Sales", 5, <<2024, 3, 11>>, "P", <<InventoryLine("B", Some(5))>>),
       WithParty(CanonicalVoucher("Sales", 8, <<2024, 3, 25>>, 0, TRUE, FALSE,
                                  <<InventoryLine("A", Some(1))>>), "Q"),
       CanonicalVoucher("Sales", 11, <<2024, 3, 2>>, 0, FALSE, FALSE,
                        <<InventoryLine("A", Some(2))>>),
       WithParty(CanonicalVoucher("Sales", 12, <<2024, 3, 15>>, 0, FALSE, TRUE,
                                  <<InventoryLine("B", Some(6))>>), "Q"),
       Order("Purchase", 10, <<2024, 3, 17>>, "P",
             <<InventoryLine("A", Some(30)), LedgerLine(TRUE, FALSE, 0, <<>>)>>) >>

(* The vouchers a later import brings: an order older than the history's last one, orders
   after it, a cancelled one, another party's and another type's *)
ActualVouchers ==
    << Order("Sales", 1, <<2024, 3, 1>>, "P", <<InventoryLine("A", Some(6))>>),
       Order("Sales", 21, <<2024, 4, 20>>, "P", <<InventoryLine("A", Some(3))>>),
       Order("Sales", 20, <<2024, 4, 9>>, "P",
             <<InventoryLine("A", Some(6)), InventoryLine("B", Some(12))>>),
       WithParty(CanonicalVoucher("Sales", 22, <<2024, 4, 5>>, 0, TRUE, FALSE,
                                  <<InventoryLine("A", Some(6))>>), "P"),
       Order("Sales", 7, <<2024, 3, 5>>, "Q", <<InventoryLine("A", Some(4))>>),
       Order("Purchase", 23, <<2024, 3, 27>>, "P", <<InventoryLine("A", Some(20))>>) >>

(* A sells by the piece, B in packs of six, C has no master record *)
ItemMasters ==
    [id \in {"A", "B"} |->
        IF id = "A" THEN PackagedItem("A", "Bolt", 1) ELSE PackagedItem("B", "Washer", 6)]

GeneratePredictions ==
    /\ predictions = Absent
    /\ predictions' =
           Some(generatePredictions(vouchers, itemMap, orderType, currentDate, timeZone))
    /\ UNCHANGED <<itemMap, orderType, newVouchers, accuracy, currentDate, timeZone>>
    /\ UNCHANGED otherThanPrediction

ScorePredictions ==
    /\ predictions # Absent
    /\ accuracy = Absent
    /\ accuracy' = Some(scorePredictions(predictions[1], newVouchers, orderType))
    /\ UNCHANGED <<itemMap, orderType, predictions, newVouchers, currentDate, timeZone>>
    /\ UNCHANGED otherThanPrediction

PredictionInputs ==
    /\ itemMap = ItemMasters
    /\ orderType \in {"Sales", "Purchase"}
    /\ predictions = Absent
    /\ accuracy = Absent
    /\ currentDate = <<2024, 4, 1>>
    /\ timeZone \in TimeZones
    /\ ReplayIdle
    /\ AgingIdle
    /\ ParseIdle
    /\ StoreIdle
    /\ IngestIdle

(* generatePredictions over one voucher list *)
InitPredict ==
    /\ vouchers \in SubLists(OrderVouchers, MaxOrders)
    /\ newVouchers = <<>>
    /\ PredictionInputs
    /\ DisplayIdle
    /\ ReconIdle
    /\ AcceptIdle
    /\ OverrideIdle
    /\ IndexedIdle
    /\ BodyIdle
    /\ UpsellIdle
    /\ MergeIdle
    /\ TurnoverIdle

NextPredict == GeneratePredictions

SpecPredict == InitPredict /\ [][NextPredict]_vars

(* generatePredictions over a history, then scorePredictions against a later import *)
InitScore ==
    /\ vouchers \in SubLists(OrderVouchers, MaxHistory)
    /\ newVouchers \in SubLists(ActualVouchers, MaxNew)
    /\ PredictionInputs
    /\ DisplayIdle
    /\ ReconIdle
    /\ AcceptIdle
    /\ OverrideIdle
    /\ IndexedIdle
    /\ BodyIdle
    /\ UpsellIdle
    /\ MergeIdle
    /\ TurnoverIdle

NextScore == GeneratePredictions \/ ScorePredictions

SpecScore == InitScore /\ [][NextScore]_vars

(* Properties of the prediction engine *)

(* The positions of the vouchers that are live orders of a party for the requested type *)
LiveOrders(party) ==
    {k \in 1..Len(vouchers) :
        /\ vouchers[k].voucherType = orderType
        /\ ~vouchers[k].isCancelled
        /\ ~vouchers[k].isOptional
        /\ vouchers[k].partyLedgerId = Some(party)}

Counterparties ==
    {vouchers[k].partyLedgerId[1] : k \in {j \in 1..Len(vouchers) :
                                              vouchers[j].partyLedgerId # Absent}}

PatternsOf(party) ==
    {k \in 1..Len(predictions[1]) : predictions[1][k].partyLedgerId = party}

SortedByDaysUntil ==
    \A i, j \in 1..Len(predictions[1]) :
        i < j => predictions[1][i].daysUntilPredicted <= predictions[1][j].daysUntilPredicted

(* C15: generatePredictions returns exactly one pattern for every counterparty with at
   least two live orders of the requested type, also when they all fall on one day, none
   for a counterparty with fewer, and the list is sorted by ascending daysUntilPredicted *)
C15_OnePatternPerRepeatParty ==
    predictions # Absent =>
        /\ \A party \in Counterparties :
               Cardinality(PatternsOf(party)) =
                   IF Cardinality(LiveOrders(party)) >= 2 THEN 1 ELSE 0
        /\ SortedByDaysUntil

(* What the code does: the party also needs two orders on different days *)
OrderDays(party) == {DayNumber(vouchers[k].date) : k \in LiveOrders(party)}

OnePatternPerPartyWithTwoOrderDays ==
    predictions # Absent =>
        /\ \A party \in Counterparties :
               Cardinality(PatternsOf(party)) =
                   IF Cardinality(OrderDays(party)) >= 2 THEN 1 ELSE 0
        /\ SortedByDaysUntil

OnePatternPerPartyWithTwoOrderDaysWitness ==
    /\ predictions # Absent
    /\ Len(predictions[1]) = 1
    /\ Cardinality(LiveOrders("Q")) = 2
    /\ Cardinality(LiveOrders("P")) = 2
    /\ Cardinality(OrderDays("P")) = 2

(* The orders of the party are all exactly g days apart *)
MinDay(S) == CHOOSE d \in S : \A e \in S : d <= e
MaxDay(S) == CHOOSE d \in S : \A e \in S : e <= d

EvenlySpaced(party, g) ==
    LET S == OrderDays(party)
        n == Cardinality(LiveOrders(party))
    IN /\ n >= 2
       /\ Cardinality(S) = n
       /\ S = {MinDay(S) + i * g : i \in 0..(n - 1)}

MaxGap == 30

ConstantGapPredicted(party, g) ==
    \E k \in PatternsOf(party) :
        LET p == predictions[1][k]
            ewma == Ewma(Intervals(p.orderDates))
        IN /\ ewma.num = g * ewma.den
           /\ DayNumber(p.predictedNextDate) =
                  MaxDay(OrderDays(party)) + RoundHalfUp(85 * g, 100)

(* C16: for a counterparty whose consecutive orders are all exactly g > 0 days apart the
   EWMA interval is g and the predicted next date is the last order date plus
   round(0.85 * g) days; orders on days 0, 10, 20, 30 give day 39 *)
C16_ConstantGapPrediction ==
    predictions # Absent =>
        \A party \in Counterparties : \A g \in 1..MaxGap :
            EvenlySpaced(party, g) => ConstantGapPredicted(party, g)

(* The same in a runtime whose local time zone has no summer time *)
ConstantGapPredictionWithoutSummerTime ==
    (predictions # Absent /\ timeZone = "Asia/Kolkata") =>
        \A party \in Counterparties : \A g \in 1..MaxGap :
            EvenlySpaced(party, g) => ConstantGapPredicted(party, g)

(* Orders on days 0, 10, 20, 30 counted from 2024-03-01: predicted for day 39 *)
DayThirtyNineWitness ==
    /\ predictions # Absent
    /\ timeZone = "Asia/Kolkata"
    /\ OrderDays("P") = {DayNumber(<<2024, 3, 1>>) + 10 * i : i \in 0..3}
    /\ EvenlySpaced("P", 10)
    /\ \E k \in PatternsOf("P") :
           predictions[1][k].predictedNextDate = DateOfDay(DayNumber(<<2024, 3, 1>>) + 39)

(* The quantities a party ordered of an item, in order of date *)
OrderedQuantities(party, itemId) ==
    LET live == SelectSeq(vouchers, LAMBDA v : IsOrder(v, orderType) /\ PartyOf(v) = party)
        agg == AggVouchers(<<>>, SortByDate(live), itemMap)
    IN (CHOOSE a \in {agg[k] : k \in 1..Len(agg)} : a.itemId = itemId).qty

(* C17: for every predicted item with a known master record predictedQtyBase is a whole
   multiple of unitsPerPkg and not smaller than mean quantity times the trend multiplier *)
C17_PackageRoundingOnlyGoesUp ==
    predictions # Absent =>
        \A k \in 1..Len(predictions[1]) :
            LET p == predictions[1][k] IN
            \A i \in 1..Len(p.topItems) :
                LET t == p.topItems[i]
                    qty == OrderedQuantities(p.partyLedgerId, t.itemId)
                IN t.itemId \in DOMAIN itemMap =>
                       /\ t.predictedQtyBase % itemMap[t.itemId].unitsPerPkg = 0
                       /\ t.predictedQtyBase * Len(qty) * 100 >=
                              SumSeq(qty) * TrendMultiplier(TrendOf(qty))

(* What the code does: whole packages, not below the nearest integer of the product *)
PackageRoundingAfterNearestInteger ==
    predictions # Absent =>
        \A k \in 1..Len(predictions[1]) :
            LET p == predictions[1][k] IN
            \A i \in 1..Len(p.topItems) :
                LET t == p.topItems[i]
                    qty == OrderedQuantities(p.partyLedgerId, t.itemId)
                IN t.itemId \in DOMAIN itemMap =>
                       /\ t.predictedQtyBase % itemMap[t.itemId].unitsPerPkg = 0
                       /\ t.predictedQtyBase >=
                              RoundHalfUp(SumSeq(qty) * TrendMultiplier(TrendOf(qty)),
                                          Len(qty) * 100)

PackageRoundingAfterNearestIntegerWitness ==
    /\ predictions # Absent
    /\ \E k \in 1..Len(predictions[1]) : \E i \in 1..Len(predictions[1][k].topItems) :
           /\ predictions[1][k].topItems[i].itemId = "B"
           /\ predictions[1][k].topItems[i].predictedQtyBase = 12

(* The party of a prediction has an actual order after the prediction's last order date *)
HasLaterActual(pred) ==
    \E k \in 1..Len(newVouchers) :
        /\ newVouchers[k].voucherType = orderType
        /\ ~newVouchers[k].isCancelled
        /\ newVouchers[k].partyLedgerId = Some(pred.partyLedgerId)
        /\ DateLess(pred.lastOrderDate, newVouchers[k].date)

(* C18: a prediction whose party has no actual order after its last known order date is
   scored with actualDate null, date score 0 and item score 0, also when the new
   transactions hold older orders of the party *)
C18_MissingActualsScoreZero ==
    accuracy # Absent =>
        \A k \in 1..Len(accuracy[1]) :
            ~HasLaterActual(predictions[1][k]) =>
                /\ accuracy[1][k].actualDate = Absent
                /\ accuracy[1][k].dateAccuracyScore = 0
                /\ accuracy[1][k].itemAccuracyScore = 0

(* What the code does: without a later order the date is not scored *)
MissingActualsDateScoreZero ==
    accuracy # Absent =>
        \A k \in 1..Len(accuracy[1]) :
            ~HasLaterActual(predictions[1][k]) =>
                /\ accuracy[1][k].actualDate = Absent
                /\ accuracy[1][k].dateAccuracyScore = 0

MissingActualsDateScoreZeroWitness ==
    /\ accuracy # Absent
    /\ \E k \in 1..Len(accuracy[1]) :
           /\ ~HasLaterActual(predictions[1][k])
           /\ accuracy[1][k].itemAccuracyScore > 0

-----------------------------------------------------------------------------
(* Unit conversion: src/unnamed/part_012. Quantities are whole thousandths; a display
   value has at most three decimals, so it is a whole number of thousandths too *)

(* mode === "PKG" && item?.pkgUnit && item.unitsPerPkg > 0 *)
UsesPackages(it, mode) == mode = "PKG" /\ it.pkgUnit # Absent /\ it.unitsPerPkg > 0

(* toDisplay(item, baseQty, mode).value: Math.round(v * 1000) / 1000 *)
toDisplay(it, qty, mode) ==
    IF UsesPackages(it, mode) THEN RoundHalfUp(qty, it.unitsPerPkg) ELSE qty

fromDisplay(it, displayQty, mode) ==
    IF UsesPackages(it, mode) THEN displayQty * it.unitsPerPkg ELSE displayQty

(* Math.abs(back - baseQty) < 1e-9: both are whole thousandths, so they are equal *)
roundTripCheck(it, qty, mode) == fromDisplay(it, toDisplay(it, qty, mode), mode) = qty

MaxBaseQty == 12

(* Whole quantities up to MaxBaseQty, a half, and a returned (negative) quantity *)
BaseQuantities == {1000 * k : k \in 0..MaxBaseQty} \cup {500, 2500, -1000}

UnitItems ==
    {UnitItem(Absent, 1), UnitItem(Some("BOX"), 1), UnitItem(Some("BOX"), 6),
     UnitItem(Some("PKT"), 7), UnitItem(Some("CTN"), 12)}

ToDisplay ==
    /\ displayed = Absent
    /\ displayed' = Some(toDisplay(unitItem, baseQty, unitMode))
    /\ UNCHANGED <<unitItem, baseQty, unitMode, convertedBack, roundTrip>>
    /\ UNCHANGED otherThanDisplay

(* The displayed value is typed back *)
FromDisplay ==
    /\ displayed # Absent
    /\ convertedBack = Absent
    /\ convertedBack' = Some(fromDisplay(unitItem, displayed[1], unitMode))
    /\ UNCHANGED <<unitItem, baseQty, unitMode, displayed, roundTrip>>
    /\ UNCHANGED otherThanDisplay

RoundTripCheck ==
    /\ roundTrip = Absent
    /\ roundTrip' = Some(roundTripCheck(unitItem, baseQty, unitMode))
    /\ UNCHANGED <<unitItem, baseQty, unitMode, displayed, convertedBack>>
    /\ UNCHANGED otherThanDisplay

InitDisplay ==
    /\ unitItem \in UnitItems
    /\ baseQty \in BaseQuantities
    /\ unitMode \in {"BASE", "PKG"}
    /\ displayed = Absent
    /\ convertedBack = Absent
    /\ roundTrip = Absent
    /\ vouchers = <<>>
    /\ ReplayIdle
    /\ AgingIdle
    /\ ParseIdle
    /\ StoreIdle
    /\ IngestIdle
    /\ PredictionIdle
    /\ ReconIdle
    /\ AcceptIdle
    /\ OverrideIdle
    /\ IndexedIdle
    /\ BodyIdle
    /\ UpsellIdle
    /\ MergeIdle
    /\ TurnoverIdle

NextDisplay == ToDisplay \/ FromDisplay \/ RoundTripCheck

SpecDisplay == InitDisplay /\ [][NextDisplay]_vars

(* C19: for an item with a package unit and positive unitsPerPkg, a base quantity turned
   into package units and back is the base quantity again (roundTripCheck returns true),
   for every base quantity *)
C19_RoundTripReproducesBaseQty ==
    (unitItem.pkgUnit # Absent /\ unitItem.unitsPerPkg > 0 /\ unitMode = "PKG") =>
        /\ roundTrip # Absent => roundTrip[1]
        /\ convertedBack # Absent => convertedBack[1] = baseQty

(* What the code does: exact when the package quantity has at most three decimals *)
RoundTripOfThreeDecimalQuotients ==
    baseQty % unitItem.unitsPerPkg = 0 =>
        /\ roundTrip # Absent => roundTrip[1]
        /\ convertedBack # Absent => convertedBack[1] = baseQty

RoundTripOfThreeDecimalQuotientsWitness ==
    /\ unitItem = UnitItem(Some("CTN"), 12)
    /\ unitMode = "PKG"
    /\ baseQty = 3000
    /\ displayed = Some(250)
    /\ convertedBack = Some(3000)
    /\ roundTrip = Some(TRUE)

-----------------------------------------------------------------------------
(* Import review: src/src/pages/Dashboard.tsx, runImportFromParsed.  Amounts are whole
   multiples of 0.005 *)

ReconTolerance == 200
ReconLimit == 20

(* toFixed(0) of a non-negative amount *)
ToFixed0(amt) == RoundHalfUp(amt, 200)

RECURSIVE SumAmounts(_)
SumAmounts(ls) == IF ls = <<>> THEN 0 ELSE Head(ls).amount + SumAmounts(Tail(ls))

(* One pass of the reconciliation loop: <<>> or the entry pushed to reconErrors, kept as
   the values the message is formatted from *)
ReconError(v) ==
    LET ledgerLines == SelectSeq(v.lines, LAMBDA l : l.type = "ledger")
        debits == SumAmounts(SelectSeq(ledgerLines, LAMBDA l : l.isDebit))
        credits == SumAmounts(SelectSeq(ledgerLines, LAMBDA l : ~l.isDebit))
    IN IF Abs(debits - credits) > ReconTolerance /\ Len(ledgerLines) > 1
       THEN << [voucherType |-> v.voucherType, voucherNumber |-> v.voucherNumber,
                date |-> v.date, dr |-> ToFixed0(debits), cr |-> ToFixed0(credits)] >>
       ELSE <<>>

RECURSIVE ReconLoop(_)
ReconLoop(vs) == IF vs = <<>> THEN <<>> ELSE ReconError(Head(vs)) \o ReconLoop(Tail(vs))

(* The smart merge of the parsed vouchers into the saved ones *)
MergeVouchers(existing, newVs) ==
    IF existing # Absent /\ Len(existing[1].vouchers) > 0
    THEN LET uniqueNewVouchers ==
                 SelectSeq(newVs, LAMBDA v : ~MapHas(existing[1].vouchers, v.voucherId))
         IN [vouchers |-> SortByDate(existing[1].vouchers \o uniqueNewVouchers),
             duplicatesRemoved |-> Len(newVs) - Len(uniqueNewVouchers),
             newVouchersAdded |-> Len(uniqueNewVouchers)]
    ELSE [vouchers |-> newVs, duplicatesRemoved |-> 0, newVouchersAdded |-> Len(newVs)]

(* runImportFromParsed: outcome "throw" without masters and without saved data, else the
   data handed to setPendingData and the report handed to setReport *)
runImportFromParsed(existing, mastersParsed, tx, sourceFiles) ==
    IF mastersParsed = Absent /\ existing = Absent THEN [outcome |-> "throw"]
    ELSE LET items == IF mastersParsed = Absent THEN existing[1].items
                      ELSE IF existing = Absent THEN mastersParsed[1].items
                      ELSE MapMerge(existing[1].items, mastersParsed[1].items)
             ledgerMap == IF mastersParsed = Absent THEN existing[1].ledgers
                          ELSE IF existing = Absent THEN mastersParsed[1].ledgers
                          ELSE MapMerge(existing[1].ledgers, mastersParsed[1].ledgers)
             company == IF mastersParsed = Absent THEN existing[1].company
                        ELSE mastersParsed[1].company
             mw == IF mastersParsed = Absent THEN <<>> ELSE mastersParsed[1].warnings
             merged == MergeVouchers(existing, tx.vouchers)
             reconErrors == ReconLoop(merged.vouchers)
             parsedData == ParsedData(IF company = Absent THEN Some("MK Cycles") ELSE company,
                                      items, ledgerMap, merged.vouchers, sourceFiles,
                                      mw \o tx.warnings)
         IN [outcome |-> "ok",
             data |-> parsedData,
             report |->
                 [items |-> Cardinality(DOMAIN items),
                  ledgers |-> Cardinality(DOMAIN ledgerMap),
                  vouchers |-> Len(merged.vouchers),
                  warnings |-> parsedData.warnings,
                  reconErrors |->
                      SubSeq(reconErrors, 1,
                             IF Len(reconErrors) < ReconLimit THEN Len(reconErrors)
                             ELSE ReconLimit),
                  duplicatesRemoved |-> merged.duplicatesRemoved,
                  newVouchersAdded |-> merged.newVouchersAdded,
                  mergeMode |-> existing # Absent]]

(* Inputs of an import *)

MaxExisting == 21
MaxParsed == 2

(* A journal voucher with a debit of 100.00 and a line list of the given kind *)
ReconVoucher(number, date, kind) ==
    CanonicalVoucher("Journal", number, date, 20000, FALSE, FALSE,
        IF kind = "balanced"
            THEN <<LedgerLine(TRUE, TRUE, 20000, <<>>), LedgerLine(FALSE, FALSE, 20000, <<>>)>>
        ELSE IF kind = "mismatch"
            THEN <<LedgerLine(TRUE, TRUE, 20000, <<>>), LedgerLine(FALSE, FALSE, 19000, <<>>),
                   InventoryLine("A", Some(1))>>
        ELSE IF kind = "tolerated"
            THEN <<LedgerLine(TRUE, TRUE, 20000, <<>>), LedgerLine(FALSE, FALSE, 19800, <<>>)>>
        ELSE IF kind = "excess"
            THEN <<LedgerLine(TRUE, TRUE, 20000, <<>>), LedgerLine(FALSE, FALSE, 20201, <<>>)>>
        ELSE <<LedgerLine(TRUE, TRUE, 20000, <<>>)>>)

ReconBaseDay == DayNumber(<<2024, 4, 1>>)

(* Saved data with n vouchers on consecutive days; every voucher mismatches ("bad") or
   every other one ("mixed") *)
SavedVouchers(n, pattern) ==
    [i \in 1..n |->
        ReconVoucher(i, DateOfDay(ReconBaseDay + i),
                     IF pattern = "bad" \/ i % 2 = 1 THEN "mismatch" ELSE "balanced")]

SavedData(n, pattern) ==
    ParsedData(Some("MK Cycles"), [id \in {"A"} |-> CanonicalItem("A", 0)], EmptyMap,
               SavedVouchers(n, pattern), <<"first.json">>, <<>>)

ExistingStores ==
    {Absent} \cup {Some(SavedData(n, pattern)) : n \in 0..MaxExisting, pattern \in {"bad", "mixed"}}

(* Parsed vouchers: dated before and after the saved ones, one with the key of saved
   voucher 1, one at the tolerance, one just above it, one with a single account line *)
ParsedVouchers ==
    << ReconVoucher(101, DateOfDay(ReconBaseDay + 40), "mismatch"),
       ReconVoucher(102, DateOfDay(ReconBaseDay), "mismatch"),
       ReconVoucher(1, DateOfDay(ReconBaseDay + 1), "balanced"),
       ReconVoucher(103, DateOfDay(ReconBaseDay + 2), "tolerated"),
       ReconVoucher(104, DateOfDay(ReconBaseDay + 3), "excess"),
       ReconVoucher(105, DateOfDay(ReconBaseDay + 4), "single") >>

MastersResults ==
    {Absent,
     Some([items |-> [id \in {"A", "B"} |-> CanonicalItem(id, 100)],
           ledgers |-> [id \in {"L"} |-> CanonicalLedger("L", Some(30))],
           company |-> Absent,
           warnings |-> <<[severity |-> "warn", context |-> "item"]>>])}

RunImportFromParsed ==
    /\ report = Absent
    /\ ~importFailed
    /\ LET run == runImportFromParsed(existingData, mastersResult, txResult, <<"tx.json">>)
       IN IF run.outcome = "throw"
          THEN /\ importFailed' = TRUE
               /\ UNCHANGED <<pendingData, report>>
          ELSE /\ pendingData' = Some(run.data)
               /\ report' = Some(run.report)
               /\ UNCHANGED importFailed
    /\ UNCHANGED <<existingData, mastersResult, txResult>>
    /\ UNCHANGED <<rawData, data, units, rates, accepts, repeats>>
    /\ UNCHANGED otherThanStoreAndRecon

InitRecon ==
    /\ existingData \in ExistingStores
    /\ mastersResult \in MastersResults
    /\ txResult \in {[vouchers |-> vs, warnings |-> <<>>] : vs \in SubLists(ParsedVouchers, MaxParsed)}
    /\ report = Absent
    /\ importFailed = FALSE
    /\ StoreIdle
    /\ vouchers = <<>>
    /\ ReplayIdle
    /\ AgingIdle
    /\ ParseIdle
    /\ IngestIdle
    /\ PredictionIdle
    /\ DisplayIdle
    /\ AcceptIdle
    /\ OverrideIdle
    /\ IndexedIdle
    /\ BodyIdle
    /\ UpsellIdle
    /\ MergeIdle
    /\ TurnoverIdle

NextRecon == RunImportFromParsed

SpecRecon == InitRecon /\ [][NextRecon]_vars

(* Properties of the import review *)

(* The account-line debits and credits of a voucher differ by more than the tolerance *)
Mismatching(v) ==
    LET ls == {k \in 1..Len(v.lines) : v.lines[k].type = "ledger"}
        dr == SumOver([k \in ls |-> IF v.lines[k].isDebit THEN v.lines[k].amount ELSE 0], ls)
        cr == SumOver([k \in ls |-> IF v.lines[k].isDebit THEN 0 ELSE v.lines[k].amount], ls)
    IN Cardinality(ls) > 1 /\ Abs(dr - cr) > ReconTolerance

ReportKey(x) == <<x.voucherType, x.voucherNumber, x.date>>

ReportedKeys == {ReportKey(report[1].reconErrors[k]) : k \in 1..Len(report[1].reconErrors)}

MismatchingKeys ==
    {ReportKey(pendingData[1].vouchers[k]) :
        k \in {j \in 1..Len(pendingData[1].vouchers) : Mismatching(pendingData[1].vouchers[j])}}

(* C20: the reconciliation report of an import exposes every voucher of the merged
   dataset with more than one account line whose debits and credits differ by more than
   the tolerance, and no other voucher, whatever the number of such vouchers; the
   flagged vouchers stay in the dataset *)
C20_ReportExposesEveryMismatch ==
    report # Absent => ReportedKeys = MismatchingKeys

(* What the code does: the report holds the first ReconLimit mismatching vouchers *)
ReportExposesFirstMismatches ==
    report # Absent =>
        /\ ReportedKeys \subseteq MismatchingKeys
        /\ Len(report[1].reconErrors) =
               IF Cardinality(MismatchingKeys) < ReconLimit
               THEN Cardinality(MismatchingKeys) ELSE ReconLimit
        /\ report[1].vouchers = Len(pendingData[1].vouchers)

ReportExposesFirstMismatchesWitness ==
    /\ report # Absent
    /\ Cardinality(MismatchingKeys) = ReconLimit
    /\ Len(report[1].reconErrors) = ReconLimit
    /\ Len(pendingData[1].vouchers) = 22

-----------------------------------------------------------------------------
(* Accepting an import: Dashboard.acceptData and the background task that mergeData starts
   (src/src/store/dataStore.ts:97-149).  Both run on one thread and give way at every
   await.  A request on the predictions object store is a transaction of its own;
   transactions on one store complete in the order they were created, the put on the
   parsedData store completes independently of them *)

Snapshot(preds) == [predictions |-> preds]

HistoryLimit == 10

Request(task, op, value) == [task |-> task, op |-> op, value |-> value]

(* prevSnapshot && prevSnapshot.predictions.length > 0 *)
HasPredictions(snapshot) == snapshot # Absent /\ Len(snapshot[1].predictions) > 0

(* allVouchers.find(v => v.partyLedgerId === p.partyLedgerId && !v.isCancelled)?.voucherType *)
FirstVoucherType(allVouchers, party) ==
    LET found == SelectSeq(allVouchers,
                           LAMBDA v : v.partyLedgerId = Some(party) /\ ~v.isCancelled)
    IN IF found = <<>> THEN Absent ELSE Some(found[1].voucherType)

(* The accuracy the background task stores: Sales and Purchase scores of the previous
   predictions, each over the patterns whose party's first voucher has that type *)
BackgroundAccuracy(prev, allVouchers) ==
    LET ofType(vtype) ==
            SelectSeq(prev.predictions,
                      LAMBDA p : FirstVoucherType(allVouchers, p.partyLedgerId) = Some(vtype))
    IN scorePredictions(ofType("Sales"), allVouchers, "Sales")
           \o scorePredictions(ofType("Purchase"), allVouchers, "Purchase")

(* newSnapshot of the background task: Sales then Purchase predictions *)
BackgroundSnapshot(allVouchers, items, now, tz) ==
    Snapshot(generatePredictions(allVouchers, items, "Sales", now, tz)
                 \o generatePredictions(allVouchers, items, "Purchase", now, tz))

(* The snapshot acceptData saves: Sales predictions of the merged data *)
FreshSnapshot(merged, now, tz) ==
    Snapshot(generatePredictions(merged.vouchers, merged.items, "Sales", now, tz))

(* history.push(prevSnapshot); keep the last 10 *)
PushHistory(history, snapshot) ==
    LET pushed == Append(history, snapshot)
    IN IF Len(pushed) > HistoryLimit
       THEN SubSeq(pushed, Len(pushed) - HistoryLimit + 1, Len(pushed))
       ELSE pushed

(* acceptData up to its first await after mergeData: loadData and createBackup, load of
   the latest snapshot, mergeData (which starts the background task unless the store was
   empty; the task runs up to its own load of the latest snapshot), saveData issued *)
AcceptStart ==
    /\ hPc = "idle"
    /\ pendingData # Absent
    /\ hPrev' = latest
    /\ LET store == mergeData(rawData, pendingData[1], units, rates)
       IN /\ rawData' = store.rawData
          /\ data' = store.data
    /\ IF rawData = Absent
       THEN UNCHANGED <<bPc, idbQueue>>
       ELSE /\ bPc' = "load"
            /\ idbQueue' = Append(idbQueue, Request("background", "loadLatest", Absent))
    /\ savePending' = TRUE
    /\ hPc' = "saving"
    /\ UNCHANGED <<latest, accuracyStore, historyStore, persistedBefore, bPrev, bSnapshot,
                   bHistory>>
    /\ UNCHANGED <<units, rates, pendingData, accepts, repeats>>
    /\ UNCHANGED otherThanStoreAndAccept

(* saveData completes; acceptData scores the previous snapshot and issues the put of the
   accuracy, or goes on to the fresh snapshot *)
SaveDataDone ==
    /\ hPc = "saving"
    /\ savePending
    /\ savePending' = FALSE
    /\ IF HasPredictions(hPrev)
       THEN /\ idbQueue' =
                   Append(idbQueue,
                          Request("accept", "putAccuracy",
                                  scorePredictions(hPrev[1].predictions,
                                                   pendingData[1].vouchers, "Sales")))
            /\ hPc' = "accuracy"
       ELSE /\ idbQueue' =
                   Append(idbQueue,
                          Request("accept", "putLatest",
                                  FreshSnapshot(data[1], currentDate, timeZone)))
            /\ hPc' = "latest"
    /\ UNCHANGED <<latest, accuracyStore, historyStore, persistedBefore, hPrev, bPc, bPrev,
                   bSnapshot, bHistory>>
    /\ UNCHANGED storeVars
    /\ UNCHANGED otherThanStoreAndAccept

(* The oldest request on the predictions store is the one that completes *)
Completes(task, op) ==
    /\ idbQueue # <<>>
    /\ Head(idbQueue).task = task
    /\ Head(idbQueue).op = op

AcceptAccuracyStored ==
    /\ Completes("accept", "putAccuracy")
    /\ accuracyStore' = Some(Head(idbQueue).value)
    /\ idbQueue' = Append(Tail(idbQueue),
                          Request("accept", "putLatest",
                                  FreshSnapshot(data[1], currentDate, timeZone)))
    /\ hPc' = "latest"
    /\ UNCHANGED <<latest, historyStore, persistedBefore, hPrev, bPc, bPrev, bSnapshot,
                   bHistory, savePending>>
    /\ UNCHANGED storeVars
    /\ UNCHANGED otherThanStoreAndAccept

AcceptLatestStored ==
    /\ Completes("accept", "putLatest")
    /\ latest' = Some(Head(idbQueue).value)
    /\ idbQueue' = Tail(idbQueue)
    /\ hPc' = "done"
    /\ UNCHANGED <<accuracyStore, historyStore, persistedBefore, hPrev, bPc, bPrev,
                   bSnapshot, bHistory, savePending>>
    /\ UNCHANGED storeVars
    /\ UNCHANGED otherThanStoreAndAccept

(* The background task has loaded the latest snapshot: it generates the new snapshot and,
   when there is something to score, issues the put of the accuracy *)
BackgroundLatestLoaded ==
    /\ Completes("background", "loadLatest")
    /\ bPrev' = latest
    /\ bSnapshot' = Some(BackgroundSnapshot(rawData[1].vouchers, data[1].items,
                                            currentDate, timeZone))
    /\ IF HasPredictions(latest)
       THEN /\ idbQueue' =
                   Append(Tail(idbQueue),
                          Request("background", "putAccuracy",
                                  BackgroundAccuracy(latest[1], rawData[1].vouchers)))
            /\ bPc' = "accuracy"
       ELSE /\ idbQueue' =
                   Append(Tail(idbQueue),
                          Request("background", "putLatest",
                                  BackgroundSnapshot(rawData[1].vouchers, data[1].items,
                                                     currentDate, timeZone)))
            /\ bPc' = "latest"
    /\ UNCHANGED <<latest, accuracyStore, historyStore, persistedBefore, hPc, hPrev,
                   bHistory, savePending>>
    /\ UNCHANGED storeVars
    /\ UNCHANGED otherThanStoreAndAccept

BackgroundAccuracyStored ==
    /\ Completes("background", "putAccuracy")
    /\ accuracyStore' = Some(Head(idbQueue).value)
    /\ idbQueue' = Append(Tail(idbQueue), Request("background", "loadHistory", Absent))
    /\ bPc' = "loadHistory"
    /\ UNCHANGED <<latest, historyStore, persistedBefore, hPc, hPrev, bPrev, bSnapshot,
                   bHistory, savePending>>
    /\ UNCHANGED storeVars
    /\ UNCHANGED otherThanStoreAndAccept

BackgroundHistoryLoaded ==
    /\ Completes("background", "loadHistory")
    /\ bHistory' = PushHistory(historyStore, bPrev[1])
    /\ idbQueue' = Append(Tail(idbQueue),
                          Request("background", "putHistory",
                                  PushHistory(historyStore, bPrev[1])))
    /\ bPc' = "putHistory"
    /\ UNCHANGED <<latest, accuracyStore, historyStore, persistedBefore, hPc, hPrev, bPrev,
                   bSnapshot, savePending>>
    /\ UNCHANGED storeVars
    /\ UNCHANGED otherThanStoreAndAccept

BackgroundHistoryStored ==
    /\ Completes("background", "putHistory")
    /\ historyStore' = Head(idbQueue).value
    /\ idbQueue' = Append(Tail(idbQueue), Request("background", "putLatest", bSnapshot[1]))
    /\ bPc' = "latest"
    /\ UNCHANGED <<latest, accuracyStore, persistedBefore, hPc, hPrev, bPrev, bSnapshot,
                   bHistory, savePending>>
    /\ UNCHANGED storeVars
    /\ UNCHANGED otherThanStoreAndAccept

BackgroundLatestStored ==
    /\ Completes("background", "putLatest")
    /\ latest' = Some(Head(idbQueue).value)
    /\ idbQueue' = Tail(idbQueue)
    /\ bPc' = "done"
    /\ UNCHANGED <<accuracyStore, historyStore, persistedBefore, hPc, hPrev, bPrev,
                   bSnapshot, bHistory, savePending>>
    /\ UNCHANGED storeVars
    /\ UNCHANGED otherThanStoreAndAccept

(* Inputs of an accepted import *)

MaxImported == 2

(* Saved data: party P's Sales orders of 2024-03-01 and 2024-03-11, alone or with P's
   Purchase orders of 2024-03-07 and 2024-03-17 *)
SavedOrders ==
    { <<OrderVouchers[2], OrderVouchers[4]>>,
      <<OrderVouchers[2], OrderVouchers[5], OrderVouchers[4], OrderVouchers[12]>> }

SavedStore(vs) ==
    ParsedData(Some("MK Cycles"), ItemMasters, EmptyMap, vs, <<"first.json">>, <<>>)

(* The snapshots an earlier import can have left under "latest" *)
PersistedSnapshots(store) ==
    {Absent, Some(Snapshot(<<>>))}
    \cup (IF store = Absent THEN {}
          ELSE {Some(FreshSnapshot(store[1], currentDate, timeZone)),
                Some(BackgroundSnapshot(store[1].vouchers, store[1].items,
                                        currentDate, timeZone))})

ImportedMasters ==
    Some([items |-> ItemMasters, ledgers |-> EmptyMap, company |-> Absent, warnings |-> <<>>])

(* An import has been reviewed over the saved data and waits to be accepted *)
InitAccept ==
    /\ PredictionIdle
    /\ StoreIdleExceptData
    /\ \E saved \in {Absent} \cup {Some(SavedStore(vs)) : vs \in SavedOrders} :
       \E imported \in SubLists(ActualVouchers, MaxImported) :
           /\ rawData = saved
           /\ data = saved
           /\ pendingData =
                  Some(runImportFromParsed(saved,
                                           IF saved = Absent THEN ImportedMasters ELSE Absent,
                                           [vouchers |-> imported, warnings |-> <<>>],
                                           <<"tx.json">>).data)
           /\ latest \in PersistedSnapshots(saved)
    /\ persistedBefore = latest
    /\ accuracyStore = Absent
    /\ historyStore = <<>>
    /\ hPc = "idle"
    /\ hPrev = Absent
    /\ bPc = "off"
    /\ bPrev = Absent
    /\ bSnapshot = Absent
    /\ bHistory = <<>>
    /\ idbQueue = <<>>
    /\ savePending = FALSE
    /\ vouchers = <<>>
    /\ ReplayIdle
    /\ AgingIdle
    /\ ParseIdle
    /\ IngestIdle
    /\ DisplayIdle
    /\ ReconIdle
    /\ OverrideIdle
    /\ IndexedIdle
    /\ BodyIdle
    /\ UpsellIdle
    /\ MergeIdle
    /\ TurnoverIdle

NextAccept ==
    \/ AcceptStart
    \/ SaveDataDone
    \/ AcceptAccuracyStored
    \/ AcceptLatestStored
    \/ BackgroundLatestLoaded
    \/ BackgroundAccuracyStored
    \/ BackgroundHistoryLoaded
    \/ BackgroundHistoryStored
    \/ BackgroundLatestStored

SpecAccept == InitAccept /\ [][NextAccept]_vars

(* Properties of an accepted import *)

(* Every snapshot a task has loaded for scoring is the one persisted before the import *)
ScoredSnapshotIsThePersistedOne ==
    /\ hPc # "idle" => hPrev = persistedBefore
    /\ bPc \notin {"off", "load"} => bPrev = persistedBefore

(* A task still has to store the accuracy of the previous snapshot *)
AccuracyStorePending ==
    /\ HasPredictions(persistedBefore)
    /\ hPc \in {"saving", "accuracy"} \/ bPc \in {"load", "accuracy"}

(* A fresh snapshot has replaced the persisted one *)
LatestReplaced == hPc = "done" \/ bPc = "done"

(* C21: the snapshot scored in an import is the one persisted before it, and its accuracy
   is stored before a fresh snapshot replaces the persisted one, in every interleaving of
   acceptData and the background task *)
C21_ScoredBeforeReplaced ==
    /\ ScoredSnapshotIsThePersistedOne
    /\ ~(AccuracyStorePending /\ LatestReplaced)

(* What the code does: each task stores its own accuracy before its own snapshot *)
OwnAccuracyBeforeOwnSnapshot ==
    /\ ScoredSnapshotIsThePersistedOne
    /\ (LatestReplaced /\ HasPredictions(persistedBefore)) => accuracyStore # Absent

OwnAccuracyBeforeOwnSnapshotWitness ==
    /\ bPc = "done"
    /\ hPc = "saving"
    /\ HasPredictions(persistedBefore)
    /\ accuracyStore # Absent
    /\ latest = bSnapshot

(* Both tasks have completed *)
AcceptFinished == hPc = "done" /\ bPc \in {"off", "done"}

(* The snapshots the two writers put under "latest" in this import *)
WrittenSnapshots ==
    {FreshSnapshot(data[1], currentDate, timeZone)}
    \cup (IF bPc = "done" THEN {bSnapshot[1]} ELSE {})

(* C29: once acceptData and the background task have both completed, the persisted latest
   snapshot does not depend on which of the two wrote last *)
C29_LatestIndependentOfWriteOrder ==
    AcceptFinished =>
        /\ latest[1] \in WrittenSnapshots
        /\ Cardinality(WrittenSnapshots) = 1

(* Both write orders happen, with different results for the same import *)
AcceptWroteLast ==
    /\ AcceptFinished
    /\ bPc = "done"
    /\ latest[1] = FreshSnapshot(data[1], currentDate, timeZone)
    /\ latest # bSnapshot

BackgroundWroteLast ==
    /\ AcceptFinished
    /\ bPc = "done"
    /\ latest = bSnapshot
    /\ latest[1] # FreshSnapshot(data[1], currentDate, timeZone)

(* What the code does: the last writer's snapshot stays, and the Sales patterns agree *)
LatestIsAWrittenSnapshot ==
    AcceptFinished =>
        /\ latest[1] \in WrittenSnapshots
        /\ \A s \in WrittenSnapshots :
               SelectSeq(s.predictions, LAMBDA p : p \in
                             {FreshSnapshot(data[1], currentDate, timeZone).predictions[k] :
                                 k \in 1..Len(FreshSnapshot(data[1], currentDate,
                                                            timeZone).predictions)})
                   = FreshSnapshot(data[1], currentDate, timeZone).predictions

-----------------------------------------------------------------------------
(* Overrides: src/src/store/overrideStore.ts, src/src/store/dataStore.ts,
   Edit.saveAll of src/src/pages/Settings.tsx *)

(* The fields of a CanonicalItem that overrides and the Edit page touch; rates are whole *)
EditableItem(id, baseUnit, pkgUnit, unitsPerPkg, openingRate) ==
    [itemId |-> id, baseUnit |-> baseUnit, pkgUnit |-> pkgUnit,
     unitsPerPkg |-> unitsPerPkg, openingRate |-> openingRate]

UnitOverride(id, pkgUnit, unitsPerPkg, source, confidence, updatedAt) ==
    [itemId |-> id, pkgUnit |-> pkgUnit, unitsPerPkg |-> unitsPerPkg,
     source |-> source, confidence |-> confidence, updatedAt |-> updatedAt]

RateOverride(id, unitRate) == [itemId |-> id, unitRate |-> unitRate]

(* { ...s.units, [itemId]: ov } *)
setOverride(overrides, itemId, ov) ==
    [k \in (DOMAIN overrides) \cup {itemId} |-> IF k = itemId THEN ov ELSE overrides[k]]

(* row.pkgUnit.trim() || null, on texts without blanks *)
RowPkgUnit(row) == IF row.pkgUnit = "" THEN Absent ELSE Some(row.pkgUnit)

(* pkgUnit ? Math.max(1, row.unitsPerPkg) : 1 *)
RowUnitsPerPkg(row) == IF RowPkgUnit(row) = Absent THEN 1 ELSE Max(1, row.unitsPerPkg)

(* The item saveAll writes for a dirty row *)
UpdatedItem(existing, row) ==
    Spread(existing, [baseUnit |-> IF row.baseUnit = "" THEN existing.baseUnit
                                   ELSE row.baseUnit,
                      pkgUnit |-> RowPkgUnit(row),
                      unitsPerPkg |-> RowUnitsPerPkg(row)])

(* The override saveAll records for a dirty row *)
RowOverride(row, now) ==
    UnitOverride(row.itemId, OrElse(RowPkgUnit(row), ""), RowUnitsPerPkg(row), "manual", 1, now)

(* The loop of saveAll over the rows: dirty rows of known items are written *)
SavedRows(items, rows) ==
    {id \in DOMAIN rows : rows[id].dirty /\ id \in DOMAIN items}

saveAllItems(items, rows) ==
    [id \in DOMAIN items |->
        IF id \in SavedRows(items, rows) THEN UpdatedItem(items[id], rows[id]) ELSE items[id]]

saveAllUnits(items, unitOverrides, rows, now) ==
    [id \in (DOMAIN unitOverrides) \cup SavedRows(items, rows) |->
        IF id \in SavedRows(items, rows) THEN RowOverride(rows[id], now) ELSE unitOverrides[id]]

-----------------------------------------------------------------------------
(* Inputs of the overrides *)

EditInstant == "2024-04-01T00:00:00.000Z"

(* Two imports of the same item: B comes with a package of 6 and of 12 *)
IngestedItems ==
    { [id \in {"B"} |-> EditableItem("B", "PCS", Some("BOX"), n, 250)] : n \in {6, 12} }

IngestedData ==
    { ParsedData(Some("MK Cycles"), items, EmptyMap, <<>>, <<"masters.json">>, <<>>) :
          items \in IngestedItems }

UnitOverrides ==
    { UnitOverride("B", pkgUnit, 10, "manual", 1, EditInstant) :
          pkgUnit \in {"CTN", "Not Applicable"} }

RateOverrides == { RateOverride("B", 300) }

(* Rows of the Edit page: getRow fills a row from the displayed item, updateRow changes
   one field and marks the row dirty *)
EditRow(itm, baseUnit, pkgUnit, unitsPerPkg, dirty) ==
    [itemId |-> itm.itemId, baseUnit |-> baseUnit, pkgUnit |-> pkgUnit,
     unitsPerPkg |-> unitsPerPkg, dirty |-> dirty]

RowOf(itm) == EditRow(itm, itm.baseUnit, OrElse(itm.pkgUnit, ""), itm.unitsPerPkg, FALSE)

EditsOf(itm) ==
    { Spread(RowOf(itm), [baseUnit |-> "NOS", dirty |-> TRUE]),
      Spread(RowOf(itm), [pkgUnit |-> "", dirty |-> TRUE]),
      Spread(RowOf(itm), [pkgUnit |-> "PKT", dirty |-> TRUE]),
      Spread(RowOf(itm), [unitsPerPkg |-> 0, dirty |-> TRUE]) }

EditRows(items) ==
    UNION { { [id \in {i} |-> r] : r \in EditsOf(items[i]) } : i \in DOMAIN items }

-----------------------------------------------------------------------------
(* Operations on the overrides *)

(* Import and restore: setData(d) *)
SetData ==
    \E d \in IngestedData :
        /\ LET store == setData(d, units, rates)
           IN /\ rawData' = store.rawData
              /\ data' = store.data
        /\ ingested' = d.items
        /\ lastOp' = "setData"
        /\ UNCHANGED <<units, rates, pendingData, accepts, repeats>>
        /\ UNCHANGED otherThanStoreAndOverride

SetUnitOverride ==
    \E ov \in UnitOverrides :
        /\ units' = setOverride(units, ov.itemId, ov)
        /\ lastOp' = "setUnitOverride"
        /\ UNCHANGED <<rawData, data, rates, pendingData, accepts, repeats, ingested>>
        /\ UNCHANGED otherThanStoreAndOverride

SetRateOverride ==
    \E ov \in RateOverrides :
        /\ rates' = setOverride(rates, ov.itemId, ov)
        /\ lastOp' = "setRateOverride"
        /\ UNCHANGED <<rawData, data, units, pendingData, accepts, repeats, ingested>>
        /\ UNCHANGED otherThanStoreAndOverride

RefreshOverrides ==
    /\ IF rawData = Absent THEN data' = data
       ELSE data' = Some([rawData[1] EXCEPT
                             !.items = applyOverridesToItems(rawData[1].items, units, rates)])
    /\ lastOp' = "refreshOverrides"
    /\ UNCHANGED <<rawData, units, rates, pendingData, accepts, repeats, ingested>>
    /\ UNCHANGED otherThanStoreAndOverride

(* Edit.saveAll: the dirty rows are written into a copy of the displayed items, each with
   its override, and the copy goes to setData *)
SaveAll ==
    /\ data # Absent
    /\ \E rows \in EditRows(data[1].items) :
          LET newItems == saveAllItems(data[1].items, rows)
              newUnits == saveAllUnits(data[1].items, units, rows, EditInstant)
              store == setData([data[1] EXCEPT !.items = newItems], newUnits, rates)
          IN /\ units' = newUnits
             /\ rawData' = store.rawData
             /\ data' = store.data
    /\ lastOp' = "saveAll"
    /\ UNCHANGED <<rates, pendingData, accepts, repeats, ingested>>
    /\ UNCHANGED otherThanStoreAndOverride

InitOverride ==
    /\ StoreIdle
    /\ OverrideIdle
    /\ vouchers = <<>>
    /\ ReplayIdle
    /\ AgingIdle
    /\ ParseIdle
    /\ IngestIdle
    /\ PredictionIdle
    /\ DisplayIdle
    /\ ReconIdle
    /\ AcceptIdle
    /\ IndexedIdle
    /\ BodyIdle
    /\ UpsellIdle
    /\ MergeIdle
    /\ TurnoverIdle

NextOverride ==
    SetData \/ SetUnitOverride \/ SetRateOverride \/ RefreshOverrides \/ SaveAll

SpecOverride == InitOverride /\ [][NextOverride]_vars

-----------------------------------------------------------------------------
(* Properties of the overrides *)

KeepsIngestedFields(raw, original) ==
    /\ raw.pkgUnit = original.pkgUnit
    /\ raw.unitsPerPkg = original.unitsPerPkg
    /\ raw.openingRate = original.openingRate

RawDataIsAsIngested ==
    rawData # Absent =>
        \A id \in DOMAIN ingested :
            id \in DOMAIN rawData[1].items
                /\ KeepsIngestedFields(rawData[1].items[id], ingested[id])

DataIsTheOverlay ==
    rawData # Absent =>
        /\ data # Absent
        /\ data[1].items = applyOverridesToItems(rawData[1].items, units, rates)

(* C22: after any sequence of setData, setUnitOverride, setRateOverride, refreshOverrides
   and Edit-page saves, the items of rawData hold the pkgUnit, unitsPerPkg and openingRate
   that were ingested, and the items of data are applyOverridesToItems of the rawData
   items under the current overrides *)
C22_OverridesAreAnOverlay == RawDataIsAsIngested /\ DataIsTheOverlay

(* refreshOverrides never changes rawData *)
RefreshKeepsRawData == [][lastOp' = "refreshOverrides" => rawData' = rawData]_vars

(* Without Edit-page saves rawData is as ingested *)
RawDataAsIngestedUntilSaved ==
    [][lastOp' # "saveAll" => (RawDataIsAsIngested => RawDataIsAsIngested')]_vars

(* Whenever the data store has written data, it is the overlay of rawData *)
DataIsTheOverlayWhenWritten ==
    lastOp \in {"setData", "refreshOverrides", "saveAll"} => DataIsTheOverlay

SavedOverIngested ==
    /\ lastOp = "saveAll"
    /\ "B" \in DOMAIN units
    /\ rawData[1].items["B"].unitsPerPkg # ingested["B"].unitsPerPkg

StaleData ==
    /\ lastOp = "setUnitOverride"
    /\ rawData # Absent
    /\ ~DataIsTheOverlay

-----------------------------------------------------------------------------
(* Indexed monthly buckets: computeMonthlyBucketsIndexed of src/src/engine/inventory.ts *)

(* The first loop of computeMonthlyBucketsIndexed, over voucherIndex.get(item.itemId) *)
RECURSIVE IndexedMovements(_, _, _)
IndexedMovements(acc, itemVouchers, itm) ==
    IF itemVouchers = <<>> THEN acc
    ELSE LET v == Head(itemVouchers)
         IN IndexedMovements(BucketLines(acc, v, v.lines, itm), Tail(itemVouchers), itm)

computeMonthlyBucketsIndexed(itm, idx, n, asOf) ==
    LET itemVouchers == IF itm.itemId \in DOMAIN idx THEN idx[itm.itemId] ELSE <<>>
    IN BucketsFrom(IndexedMovements([in |-> EmptyMap, out |-> EmptyMap], itemVouchers, itm),
                   itm, n, asOf)

(* Vouchers around the window, among them vouchers with two lines of item A *)
IndexedBucketVouchers ==
    { CanonicalVoucher(t, "1", <<m[1], m[2], 5>>, 0, FALSE, FALSE, ls) :
        t \in {"Purchase", "Stock Journal"},
        m \in {<<2023, 11>>, <<2024, 1>>},
        ls \in { <<InventoryLine("A", Some(1))>>,
                 <<InventoryLine("A", Some(1)), InventoryLine("A", Some(2))>>,
                 <<InventoryLine("B", Some(4)), InventoryLine("A", Some(-3))>> } }
    \cup { CanonicalVoucher("Sales", "2", <<2024, 1, 9>>, 0, c, ~c,
                            <<InventoryLine("A", Some(7))>>) : c \in BOOLEAN }
    \cup { CanonicalVoucher("Sales", "3", <<2024, 2, 9>>, 0, FALSE, FALSE,
                            <<InventoryLine("A", Some(2)), InventoryLine("A", Some(2))>>) }

ComputeMonthlyBucketsIndexed ==
    /\ voucherIndex # Absent
    /\ bucketsIndexed = Absent
    /\ bucketsIndexed' = Some(computeMonthlyBucketsIndexed(item, voucherIndex[1], nMonths, asOfDate))
    /\ UNCHANGED otherThanIndexed

InitBucketsIndexed ==
    /\ item = CanonicalItem("A", 10)
    /\ vouchers \in SeqsUpTo(IndexedBucketVouchers, MaxVouchers)
    /\ nMonths \in 1..MaxWindow
    /\ asOfDate \in AsOfDates
    /\ ReplayResultsInit
    /\ IndexedIdle
    /\ AgingIdle
    /\ ParseIdle
    /\ StoreIdle
    /\ IngestIdle
    /\ PredictionIdle
    /\ DisplayIdle
    /\ ReconIdle
    /\ AcceptIdle
    /\ OverrideIdle
    /\ BodyIdle
    /\ UpsellIdle
    /\ MergeIdle
    /\ TurnoverIdle

NextBucketsIndexed == BuildVoucherIndex \/ ComputeMonthlyBuckets \/ ComputeMonthlyBucketsIndexed

SpecBucketsIndexed == InitBucketsIndexed /\ [][NextBucketsIndexed]_vars

(* C23: the indexed and the unindexed monthly buckets of one item, voucher list, window
   and reference date are the same sequence of buckets *)
C23_IndexedBucketsEqualUnindexed ==
    (buckets # Absent /\ bucketsIndexed # Absent) => bucketsIndexed = buckets

(* The number of lines of the item on a voucher *)
ItemLineCount(v, itm) ==
    Cardinality({j \in 1..Len(v.lines) :
                    v.lines[j].type = "inventory" /\ v.lines[j].itemId = Some(itm.itemId)})

(* The two results agree when no live voucher carries the item on more than one line *)
IndexedBucketsEqualWithOneLinePerVoucher ==
    (/\ buckets # Absent
     /\ bucketsIndexed # Absent
     /\ \A i \in 1..Len(vouchers) :
           (vouchers[i].isCancelled \/ vouchers[i].isOptional)
               \/ ItemLineCount(vouchers[i], item) <= 1)
        => bucketsIndexed = buckets

IndexedBucketsEqualWithOneLinePerVoucherWitness ==
    /\ buckets # Absent
    /\ bucketsIndexed # Absent
    /\ Len(vouchers) = 2
    /\ \A i \in 1..Len(vouchers) :
          /\ ~vouchers[i].isCancelled
          /\ ~vouchers[i].isOptional
          /\ ItemLineCount(vouchers[i], item) = 1
    /\ buckets[1][1].inwardsBase + buckets[1][1].outwardsBase > 0

-----------------------------------------------------------------------------
(* Voucher lines, total and flags: parseOneVoucher of src/src/parser/transactionParser.ts *)

(* A raw JSON value that is a boolean or a string *)
JsBool(b) == [kind |-> "boolean", text |-> IF b THEN "true" ELSE "false"]
JsString(text) == [kind |-> "string", text |-> text]

(* Boolean(v) *)
JsBoolean(v) == IF v.kind = "boolean" THEN v.text = "true" ELSE v.text # ""

(* A flag under its three field names *)
FlagFields(lower, camel, upper) == [lower |-> lower, camel |-> camel, upper |-> upper]

(* f.lower !== undefined ? Boolean(f.lower) : Boolean(f.camel ?? f.upper === "Yes") *)
FlagOf(f) ==
    IF f.lower # Absent THEN JsBoolean(f.lower[1])
    ELSE IF f.camel # Absent THEN JsBoolean(f.camel[1])
    ELSE f.upper = Some(JsString("Yes"))

(* A raw quantity: a number, or a string such as " 240 PC" or "-3 PC" *)
RawQty(kind, value) == [kind |-> kind, value |-> value]

(* parseQtyString: a number is returned as it is; of a string the digits behind the
   optional minus sign are parsed *)
parseQtyString(v) == IF v.kind = "number" THEN v.value ELSE Abs(v.value)

(* String(name).toUpperCase().trim() on the names of the model *)
UpperTrim(name) ==
    CASE name = "Acme" -> "ACME"
      [] name = "Sales A/c" -> "SALES A/C"
      [] name = "Tube" -> "TUBE"
      [] OTHER -> name

RawLedgerEntry(ledgername, debit, party, amount) ==
    [ledgername |-> ledgername, debit |-> debit, party |-> party, amount |-> amount]

RawInventoryEntry(stockitemname, actualqty, rate, amount) ==
    [stockitemname |-> stockitemname, actualqty |-> actualqty, rate |-> rate, amount |-> amount]

(* The loop over rawLedgerEntries; the entries of the model carry no bill allocations *)
RECURSIVE LedgerEntries(_, _)
LedgerEntries(acc, entries) ==
    IF entries = <<>> THEN acc
    ELSE LET le == Head(entries)
             ledgerId == UpperTrim(le.ledgername)
             isDebit == FlagOf(le.debit)
             amount == Abs(OrElse(le.amount, 0))
             isPartyLine == FlagOf(le.party)
             line == [type |-> "ledger", ledgerId |-> ledgerId, isDebit |-> isDebit,
                      amount |-> amount, isPartyLine |-> isPartyLine,
                      billAllocations |-> <<>>]
         IN IF ledgerId = "" THEN LedgerEntries(acc, Tail(entries))
            ELSE LedgerEntries(
                     [lines |-> Append(acc.lines, line),
                      totalAmount |-> IF isPartyLine THEN amount ELSE acc.totalAmount,
                      partyLedgerId |-> IF isPartyLine THEN Some(ledgerId)
                                        ELSE acc.partyLedgerId,
                      partyName |-> IF isPartyLine /\ acc.partyName = Absent
                                    THEN Some(le.ledgername) ELSE acc.partyName],
                     Tail(entries))

(* The loop over rawInventoryEntries *)
RECURSIVE InventoryEntries(_, _)
InventoryEntries(acc, entries) ==
    IF entries = <<>> THEN acc
    ELSE LET ie == Head(entries)
             itemId == UpperTrim(ie.stockitemname)
             qtyBase == Abs(parseQtyString(OrElse(ie.actualqty, RawQty("string", 0))))
             ratePerBase == OrElse(ie.rate, 0)
             lineAmount == Abs(OrElse(ie.amount, qtyBase * ratePerBase))
             line == [type |-> "inventory", itemId |-> Some(itemId),
                      qtyBase |-> Some(qtyBase), ratePerBase |-> ratePerBase,
                      lineAmount |-> lineAmount]
         IN IF itemId = "" THEN InventoryEntries(acc, Tail(entries))
            ELSE InventoryEntries(
                     [acc EXCEPT !.lines = Append(@, line),
                                 !.totalAmount = IF @ = 0 /\ lineAmount # 0
                                                 THEN lineAmount ELSE @],
                     Tail(entries))

(* parseOneVoucher from `const lines` on: lines, total, counterparty and flags *)
parseVoucherLines(rv) ==
    LET start == [lines |-> <<>>, totalAmount |-> 0, partyLedgerId |-> Absent,
                  partyName |-> rv.partyledgername]
        body == InventoryEntries(LedgerEntries(start, rv.ledgerentries), rv.inventoryentries)
    IN [partyLedgerId |-> body.partyLedgerId,
        partyName |-> body.partyName,
        totalAmount |-> body.totalAmount,
        isCancelled |-> FlagOf(rv.cancelled),
        isOptional |-> FlagOf(rv.optional),
        lines |-> body.lines]

(* The voucher parseOneVoucher returns for a record with a valid date *)
parseOneVoucherWithLines(rv) ==
    Spread(parseOneVoucher(rv).voucher, parseVoucherLines(rv))

-----------------------------------------------------------------------------
(* Inputs: single voucher records *)

MaxLines == 2

FlagValues == {JsBool(TRUE), JsBool(FALSE), JsString("Yes"), JsString("No"), JsString("Y")}

(* A flag that is missing, or written under one of its field names *)
Flags ==
    {FlagFields(Absent, Absent, Absent)}
    \cup {FlagFields(Some(v), Absent, Absent) : v \in FlagValues}
    \cup {FlagFields(Absent, Some(v), Absent) : v \in FlagValues}
    \cup {FlagFields(Absent, Absent, Some(v)) : v \in FlagValues}

NoFlag == FlagFields(Absent, Absent, Absent)
FlagSet == FlagFields(Some(JsBool(TRUE)), Absent, Absent)

RawRecord(typeName, cancelled, optional, ledgerentries, inventoryentries) ==
    Spread(RawVoucher("object", "vouchertypename", RawText(typeName, FALSE), "vouchernumber",
                      RawText("1", FALSE), "date", RawDate("compact", Day1), "a"),
           [partyledgername |-> Absent, cancelled |-> cancelled, optional |-> optional,
            ledgerentries |-> ledgerentries, inventoryentries |-> inventoryentries])

PartyEntry(amount) == RawLedgerEntry("Acme", FlagSet, FlagSet, Some(amount))

(* Records whose flags are written in every way *)
FlagRecords ==
    { RawRecord("SALES", c, o, <<PartyEntry(-500)>>,
                <<RawInventoryEntry("Tube", Some(RawQty("string", 2)), Some(50), Some(-100))>>) :
          c \in Flags, o \in Flags }
    \cup
    { RawRecord("SALES", NoFlag, NoFlag, <<RawLedgerEntry("Acme", d, p, Some(-500))>>, <<>>) :
          d \in Flags, p \in Flags }

RawAmounts == {Absent, Some(0), Some(100), Some(-200)}

(* Records with and without a counterparty amount, and up to MaxLines inventory lines *)
AmountRecords ==
    { RawRecord("SALES", NoFlag, NoFlag, les,
                [k \in DOMAIN amounts |->
                    RawInventoryEntry("Tube", Some(RawQty("number", 3)), Some(10), amounts[k])]) :
          les \in { <<>>, <<PartyEntry(0)>>, <<PartyEntry(-500)>>,
                    <<RawLedgerEntry("Sales A/c", NoFlag, NoFlag, Some(500))>> },
          amounts \in SeqsUpTo(RawAmounts, MaxLines) }

RawQuantities ==
    { Some(RawQty(k, q)) : k \in {"number", "string"}, q \in {-3, 3} } \cup {Absent}

(* Records of one inventory line, its quantity written in every way *)
QuantityRecords ==
    { RawRecord(t, NoFlag, NoFlag, <<>>, <<RawInventoryEntry("Tube", q, Some(10), Absent)>>) :
          t \in {"Stock Journal", "Purchase", "SALES"}, q \in RawQuantities }

BodyRecords == FlagRecords \cup AmountRecords \cup QuantityRecords

ReplayedItem == CanonicalItem("TUBE", 10)

-----------------------------------------------------------------------------
(* Operations on one voucher record *)

ParseOneVoucher ==
    /\ canonical = Absent
    /\ canonical' = Some(parseOneVoucherWithLines(rawRecord[1]))
    /\ UNCHANGED <<rawRecord, stockAfter>>
    /\ UNCHANGED otherThanBody

(* getCurrentStock over the parsed voucher *)
ReplayParsed ==
    /\ canonical # Absent
    /\ stockAfter = Absent
    /\ stockAfter' = Some(getCurrentStock(ReplayedItem, <<canonical[1]>>))
    /\ UNCHANGED <<rawRecord, canonical>>
    /\ UNCHANGED otherThanBody

InitBody ==
    /\ rawRecord \in {Some(r) : r \in BodyRecords}
    /\ canonical = Absent
    /\ stockAfter = Absent
    /\ vouchers = <<>>
    /\ ReplayIdle
    /\ AgingIdle
    /\ ParseIdle
    /\ StoreIdle
    /\ IngestIdle
    /\ PredictionIdle
    /\ DisplayIdle
    /\ ReconIdle
    /\ AcceptIdle
    /\ OverrideIdle
    /\ IndexedIdle
    /\ UpsellIdle
    /\ MergeIdle
    /\ TurnoverIdle

NextBody == ParseOneVoucher \/ ReplayParsed

SpecBody == InitBody /\ [][NextBody]_vars

-----------------------------------------------------------------------------
(* Properties of one parsed voucher *)

InventoryLinesOf(v) == {k \in 1..Len(v.lines) : v.lines[k].type = "inventory"}

PartyAmounts(v) ==
    {k \in 1..Len(v.lines) :
        v.lines[k].type = "ledger" /\ v.lines[k].isPartyLine /\ v.lines[k].amount # 0}

LineAmountSum(v) ==
    SumOver([k \in InventoryLinesOf(v) |-> v.lines[k].lineAmount], InventoryLinesOf(v))

(* C24: without a counterparty line amount the total of a parsed voucher is the sum of
   the amounts of its inventory lines; with one, the total is the counterparty amount,
   whatever the inventory lines are *)
C24_TotalIsSumOfLineAmounts ==
    canonical # Absent =>
        LET v == canonical[1] IN
        /\ PartyAmounts(v) = {} => v.totalAmount = LineAmountSum(v)
        /\ PartyAmounts(v) # {} =>
              \E k \in PartyAmounts(v) :
                  /\ \A j \in PartyAmounts(v) : j <= k
                  /\ v.totalAmount = v.lines[k].amount

(* With a counterparty line amount, inventory lines do not change the total *)
PartyAmountIsTheTotal ==
    (canonical # Absent /\ PartyAmounts(canonical[1]) # {}) =>
        \E k \in PartyAmounts(canonical[1]) :
            /\ \A j \in PartyAmounts(canonical[1]) : j <= k
            /\ canonical[1].totalAmount = canonical[1].lines[k].amount

PartyAmountIsTheTotalWitness ==
    /\ canonical # Absent
    /\ PartyAmounts(canonical[1]) # {}
    /\ Cardinality(InventoryLinesOf(canonical[1])) = 2
    /\ LineAmountSum(canonical[1]) = 300
    /\ canonical[1].totalAmount = 500

(* Without one, the total is the first inventory line amount that is not zero *)
TotalIsFirstLineAmount ==
    (canonical # Absent /\ PartyAmounts(canonical[1]) = {}) =>
        LET v == canonical[1]
            nonZero == {k \in InventoryLinesOf(v) : v.lines[k].lineAmount # 0}
        IN IF nonZero = {} THEN v.totalAmount = 0
           ELSE \E k \in nonZero : /\ \A j \in nonZero : k <= j
                                   /\ v.totalAmount = v.lines[k].lineAmount

TotalIsFirstLineAmountWitness ==
    /\ canonical # Absent
    /\ PartyAmounts(canonical[1]) = {}
    /\ LineAmountSum(canonical[1]) = 300
    /\ canonical[1].totalAmount = 100

RawQuantityOf(r) == r.inventoryentries[1].actualqty[1].value

NegativeStockJournal ==
    /\ rawRecord[1] \in QuantityRecords
    /\ rawRecord[1].vouchertypename = Some(RawText("Stock Journal", FALSE))
    /\ rawRecord[1].inventoryentries[1].actualqty # Absent
    /\ RawQuantityOf(rawRecord[1]) < 0

(* C25: a Stock Journal line with a negative raw quantity, number or string, is parsed
   to a negative qtyBase, and replaying the parsed voucher lowers the stock of the item
   by that quantity *)
C25_StockJournalSignSurvives ==
    NegativeStockJournal =>
        /\ canonical # Absent =>
              canonical[1].lines[1].qtyBase = Some(RawQuantityOf(rawRecord[1]))
        /\ stockAfter # Absent =>
              stockAfter[1] = ReplayedItem.openingQtyBase + RawQuantityOf(rawRecord[1])

(* The parsed quantity is the absolute value of the raw one *)
QuantityIsAbsolute ==
    (canonical # Absent /\ rawRecord[1] \in QuantityRecords
        /\ rawRecord[1].inventoryentries[1].actualqty # Absent) =>
        canonical[1].lines[1].qtyBase = Some(Abs(RawQuantityOf(rawRecord[1])))

QuantityIsAbsoluteWitness ==
    /\ NegativeStockJournal
    /\ stockAfter = Some(13)

(* The value a flag is written with, if any *)
Written(f) ==
    IF f.lower # Absent THEN f.lower
    ELSE IF f.camel # Absent THEN f.camel
    ELSE f.upper

NormalizesTo(f, flag) ==
    /\ flag => Written(f) \in {Some(JsBool(TRUE)), Some(JsString("Yes"))}
    /\ (Written(f) = Absent \/ (Written(f) # Absent /\ Written(f)[1].kind = "string"
                                  /\ Written(f)[1].text # "Yes")) => ~flag

(* C26: the cancelled, optional, debit and counterparty-line flags of a parsed voucher
   are true only for the boolean true or the string 'Yes'; 'No', any other string and a
   missing field give false, whichever field name carries the value *)
C26_FlagsOnlyTrueOrYes ==
    (canonical # Absent /\ rawRecord[1] \in FlagRecords) =>
        /\ NormalizesTo(rawRecord[1].cancelled, canonical[1].isCancelled)
        /\ NormalizesTo(rawRecord[1].optional, canonical[1].isOptional)
        /\ \A k \in 1..Len(canonical[1].lines) :
              canonical[1].lines[k].type = "ledger" =>
                  /\ NormalizesTo(rawRecord[1].ledgerentries[k].debit,
                                  canonical[1].lines[k].isDebit)
                  /\ NormalizesTo(rawRecord[1].ledgerentries[k].party,
                                  canonical[1].lines[k].isPartyLine)

(* Under the uppercase field name only the string 'Yes' gives true *)
UppercaseFlagOnlyYes ==
    (canonical # Absent /\ rawRecord[1] \in FlagRecords
        /\ rawRecord[1].cancelled.lower = Absent /\ rawRecord[1].cancelled.camel = Absent) =>
        (canonical[1].isCancelled <=> rawRecord[1].cancelled.upper = Some(JsString("Yes")))

UppercaseFlagOnlyYesWitness ==
    /\ canonical # Absent
    /\ rawRecord[1] \in FlagRecords
    /\ rawRecord[1].cancelled.upper = Some(JsString("Yes"))
    /\ canonical[1].isCancelled

LowercaseNoIsTrue ==
    /\ canonical # Absent
    /\ rawRecord[1] \in FlagRecords
    /\ rawRecord[1].cancelled.lower = Some(JsString("No"))
    /\ canonical[1].isCancelled

-----------------------------------------------------------------------------
(* Upsell suggestions: generateUpsellSuggestions of src/src/engine/prediction.ts *)

(* The item ids of the inventory lines of the orders, in line order *)
RECURSIVE LineItems(_)
LineItems(orders) ==
    IF orders = <<>> THEN <<>>
    ELSE LET lines == SelectSeq(Head(orders).lines,
                                LAMBDA l : l.type = "inventory" /\ l.itemId # Absent)
         IN [k \in 1..Len(lines) |-> lines[k].itemId[1]] \o LineItems(Tail(orders))

(* partyItemSets.get(partyId), a Set in insertion order *)
PartyItems(orders, partyId) == Unique(LineItems(OrdersOfParty(orders, partyId)))

Has(xs, x) == \E k \in 1..Len(xs) : xs[k] = x

(* coPartyItems.set(itemId, (coPartyItems.get(itemId) ?? 0) + 1) *)
CountAdd(counts, id) ==
    IF \E k \in 1..Len(counts) : counts[k].itemId = id
    THEN [k \in 1..Len(counts) |->
             IF counts[k].itemId = id THEN [counts[k] EXCEPT !.count = @ + 1] ELSE counts[k]]
    ELSE Append(counts, [itemId |-> id, count |-> 1])

RECURSIVE CountAll(_, _)
CountAll(counts, ids) ==
    IF ids = <<>> THEN counts ELSE CountAll(CountAdd(counts, Head(ids)), Tail(ids))

(* The co-purchase loop over the other parties: overlap of at least one half *)
RECURSIVE CoPurchase(_, _, _, _)
CoPurchase(acc, keys, orders, partyId) ==
    IF keys = <<>> THEN acc
    ELSE LET partyItems == PartyItems(orders, partyId)
             otherItems == PartyItems(orders, Head(keys))
             overlap == Cardinality({k \in 1..Len(partyItems) : Has(otherItems, partyItems[k])})
         IN IF Head(keys) = partyId \/ 2 * overlap < Len(partyItems)
            THEN CoPurchase(acc, Tail(keys), orders, partyId)
            ELSE CoPurchase(
                     [coPurchaserCount |-> acc.coPurchaserCount + 1,
                      coPartyItems |->
                          CountAll(acc.coPartyItems,
                                   SelectSeq(otherItems, LAMBDA id : ~Has(partyItems, id)))],
                     Tail(keys), orders, partyId)

(* sort((a, b) => b[1] - a[1]): stable, descending count *)
RECURSIVE SortByCount(_)
SortByCount(xs) ==
    IF xs = <<>> THEN <<>>
    ELSE LET init == SortByCount(SubSeq(xs, 1, Len(xs) - 1))
             x == xs[Len(xs)]
             n == Cardinality({k \in 1..Len(init) : init[k].count >= x.count})
         IN SubSeq(init, 1, n) \o <<x>> \o SubSeq(init, n + 1, Len(init))

(* Variant of Slice: nothing is cut off *)
SliceAll(xs, n) == xs

(* xs.slice(0, n) *)
Slice(xs, n) == SubSeq(xs, 1, IF Len(xs) < n THEN Len(xs) ELSE n)

(* roundToPackage(avgQty, unitsPerPkg) or Math.ceil(avgQty) for avgQty = total / count *)
SuggestedQty(allAgg, items, id) ==
    LET found == SelectSeq(allAgg, LAMBDA a : a.itemId = id)
        total == IF found = <<>> THEN 1 ELSE SumSeq(found[1].qty)
        count == IF found = <<>> THEN 1 ELSE Len(found[1].qty)
        per == IF id \in DOMAIN items /\ items[id].unitsPerPkg > 1
               THEN items[id].unitsPerPkg ELSE 1
    IN ((total + count * per - 1) \div (count * per)) * per

Suggestion(allAgg, items, id, reason, confidence) ==
    [itemId |-> id,
     itemName |-> IF id \in DOMAIN items THEN items[id].name ELSE id,
     reason |-> reason,
     suggestedQtyBase |-> SuggestedQty(allAgg, items, id),
     confidence |-> confidence]

Suggested(suggestions, id) == \E k \in 1..Len(suggestions) : suggestions[k].itemId = id

(* 1. the top co-purchase items *)
CoPurchaseItems(allAgg, items, co) ==
    IF co.coPurchaserCount = 0 THEN <<>>
    ELSE LET coSorted == Slice(SortByCount(co.coPartyItems), 3)
         IN [k \in 1..Len(coSorted) |->
                Suggestion(allAgg, items, coSorted[k].itemId,
                           "Frequently bought by similar parties",
                           [num |-> coSorted[k].count, den |-> co.coPurchaserCount])]

(* The first item of the group with the largest quantity, "" if none has any *)
RECURSIVE TopOfGroup(_, _, _)
TopOfGroup(groupItems, topItemId, topQty) ==
    IF groupItems = <<>> THEN topItemId
    ELSE IF SumSeq(Head(groupItems).qty) > topQty
    THEN TopOfGroup(Tail(groupItems), Head(groupItems).itemId, SumSeq(Head(groupItems).qty))
    ELSE TopOfGroup(Tail(groupItems), topItemId, topQty)

(* 2. category fill, one group of the party after the other *)
RECURSIVE CategoryFill(_, _, _, _, _)
CategoryFill(suggestions, groups, partyItems, allAgg, items) ==
    IF groups = <<>> THEN suggestions
    ELSE LET groupItems ==
                 SelectSeq(allAgg, LAMBDA a : a.itemId \in DOMAIN items
                                                 /\ items[a.itemId].group = Head(groups))
             topItemId == TopOfGroup(groupItems, "", 0)
         IN IF topItemId # "" /\ ~Has(partyItems, topItemId) /\ ~Suggested(suggestions, topItemId)
            THEN CategoryFill(Append(suggestions,
                                     Suggestion(allAgg, items, topItemId,
                                                "Trending item in category",
                                                [num |-> 1, den |-> 2])),
                              Tail(groups), partyItems, allAgg, items)
            ELSE CategoryFill(suggestions, Tail(groups), partyItems, allAgg, items)

(* 3. trending items the party does not buy, two at most *)
RECURSIVE Trending(_, _, _, _, _, _)
Trending(suggestions, trendingItems, trendingAdded, partyItems, allAgg, items) ==
    IF trendingItems = <<>> \/ trendingAdded >= 2 THEN suggestions
    ELSE LET id == Head(trendingItems)
         IN IF Has(partyItems, id) \/ Suggested(suggestions, id)
            THEN Trending(suggestions, Tail(trendingItems), trendingAdded,
                          partyItems, allAgg, items)
            ELSE Trending(Append(suggestions,
                                 Suggestion(allAgg, items, id, "Seasonal peak",
                                            [num |-> 2, den |-> 5])),
                          Tail(trendingItems), trendingAdded + 1, partyItems, allAgg, items)

(* trendingItems: the quantity of the last three months against the nine before *)
TrendingItems(orders, items, threeMonthsAgo, twelveMonthsAgo) ==
    LET recent == AggVouchers(<<>>, SelectSeq(orders,
                      LAMBDA v : ~DateLess(v.date, threeMonthsAgo)), items)
        prior == AggVouchers(<<>>, SelectSeq(orders,
                      LAMBDA v : ~DateLess(v.date, twelveMonthsAgo)
                                    /\ DateLess(v.date, threeMonthsAgo)), items)
        prior9(id) == LET f == SelectSeq(prior, LAMBDA a : a.itemId = id)
                      IN IF f = <<>> THEN 0 ELSE SumSeq(f[1].qty)
        hot == SelectSeq(recent, LAMBDA a : prior9(a.itemId) > 0
                                               /\ 2 * SumSeq(a.qty) > prior9(a.itemId))
    IN [k \in 1..Len(hot) |-> hot[k].itemId]

generateUpsellSuggestions(partyId, orders, trendingItems, items) ==
    LET partyItems == PartyItems(orders, partyId)
        allAgg == AggVouchers(<<>>, orders, items)
        co == CoPurchase([coPurchaserCount |-> 0, coPartyItems |-> <<>>],
                         PartyKeys(orders), orders, partyId)
        known == SelectSeq(partyItems, LAMBDA id : id \in DOMAIN items)
        partyGroups == Unique([k \in 1..Len(known) |-> items[known[k]].group])
    IN IF partyItems = <<>> THEN <<>>
       ELSE Slice(Trending(CategoryFill(CoPurchaseItems(allAgg, items, co),
                                        partyGroups, partyItems, allAgg, items),
                           trendingItems, 0, partyItems, allAgg, items),
                  5)

(* The upsellItems of the patterns of generatePredictions, party by party *)
RECURSIVE UpsellLoop(_, _, _, _, _, _)
UpsellLoop(keys, orders, trendingItems, items, now, tz) ==
    IF keys = <<>> THEN <<>>
    ELSE (IF PartyPattern(Head(keys), OrdersOfParty(orders, Head(keys)), items, now, tz) = <<>>
          THEN <<>>
          ELSE << [partyLedgerId |-> Head(keys),
                   upsellItems |-> generateUpsellSuggestions(Head(keys), orders,
                                                             trendingItems, items)] >>)
         \o UpsellLoop(Tail(keys), orders, trendingItems, items, now, tz)

(* setMonth(getMonth() - n) for a day of the month that every month has.  The month is
   set on the local clock and the date is read in UTC: when summer time began in
   between, the UTC date can fall on the next day.  A whole year back the clock is the
   same *)
MonthsAgo(now, n, tz) ==
    LET k == now[1] * 12 + (now[2] - 1) - n
        date == <<k \div 12, (k % 12) + 1, now[3]>>
    IN IF n % 12 # 0 /\ InSummerTime(tz, DayNumber(now)) /\ ~InSummerTime(tz, DayNumber(date))
       THEN {date, DateOfDay(DayNumber(date) + 1)}
       ELSE {date}

-----------------------------------------------------------------------------
(* Inputs of the upsell suggestions *)

MaxUpsellOrders == 5

GroupedItem(id, name, group, unitsPerPkg) ==
    [itemId |-> id, name |-> name, group |-> group, unitsPerPkg |-> unitsPerPkg]

(* Seven items in two groups; H has no master record *)
UpsellMasters ==
    [id \in {"A", "B", "C", "D", "E", "F", "G"} |->
        GroupedItem(id, id, IF id \in {"A", "E", "B"} THEN "Tyres" ELSE "Tubes",
                    IF id = "B" THEN 6 ELSE 1)]

(* P buys A; Q buys A and four more; R buys F and G, lately much more of them *)
UpsellVouchers ==
    << Order("Sales", 1, <<2024, 5, 1>>, "P", <<InventoryLine("A", Some(2))>>),
       Order("Sales", 2, <<2024, 5, 11>>, "P", <<InventoryLine("A", Some(2))>>),
       Order("Sales", 3, <<2024, 5, 2>>, "Q",
             <<InventoryLine("A", Some(1)), InventoryLine("B", Some(4)),
               InventoryLine("D", Some(1)), InventoryLine("C", Some(1)),
               InventoryLine("E", Some(9))>>),
       Order("Sales", 4, <<2024, 5, 12>>, "Q",
             <<InventoryLine("C", Some(1)), InventoryLine("H", Some(3))>>),
       Order("Sales", 5, <<2023, 9, 1>>, "R",
             <<InventoryLine("F", Some(1)), InventoryLine("G", Some(1))>>),
       Order("Sales", 6, <<2024, 6, 1>>, "R",
             <<InventoryLine("G", Some(5)), InventoryLine("F", Some(5)),
               InventoryLine("A", Some(1))>>),
       Order("Sales", 7, <<2024, 5, 21>>, "P", <<InventoryLine("B", Some(6))>>),
       Order("Purchase", 8, <<2024, 5, 3>>, "P", <<InventoryLine("E", Some(50))>>) >>

-----------------------------------------------------------------------------
(* Operations of the upsell suggestions *)

(* generatePredictions, the upsellItems of its patterns *)
GenerateUpsells ==
    /\ upsells = Absent
    /\ \E threeMonthsAgo \in MonthsAgo(currentDate, 3, timeZone),
          twelveMonthsAgo \in MonthsAgo(currentDate, 12, timeZone) :
          LET orders == SelectSeq(vouchers, LAMBDA v : IsOrder(v, orderType))
          IN upsells' =
                 Some(UpsellLoop(PartyKeys(orders), orders,
                                 TrendingItems(orders, itemMap, threeMonthsAgo, twelveMonthsAgo),
                                 itemMap, currentDate, timeZone))
    /\ UNCHANGED otherThanUpsell

InitUpsell ==
    /\ vouchers \in SubLists(UpsellVouchers, MaxUpsellOrders)
    /\ itemMap = UpsellMasters
    /\ orderType \in {"Sales", "Purchase"}
    /\ currentDate = <<2024, 6, 15>>
    /\ timeZone \in TimeZones
    /\ predictions = Absent
    /\ newVouchers = <<>>
    /\ accuracy = Absent
    /\ ReplayIdle
    /\ UpsellIdle
    /\ AgingIdle
    /\ ParseIdle
    /\ StoreIdle
    /\ IngestIdle
    /\ DisplayIdle
    /\ ReconIdle
    /\ AcceptIdle
    /\ OverrideIdle
    /\ IndexedIdle
    /\ BodyIdle
    /\ MergeIdle
    /\ TurnoverIdle

NextUpsell == GenerateUpsells

SpecUpsell == InitUpsell /\ [][NextUpsell]_vars

-----------------------------------------------------------------------------
(* Properties of the upsell suggestions *)

StageOf(suggestion) ==
    CASE suggestion.reason = "Frequently bought by similar parties" -> 1
      [] suggestion.reason = "Trending item in category" -> 2
      [] suggestion.reason = "Seasonal peak" -> 3

(* The items on the inventory lines of the party's live orders of the order type *)
Purchased(partyId) ==
    { vouchers[i].lines[j].itemId[1] :
        <<i, j>> \in { p \in (1..Len(vouchers)) \X (1..8) :
                        /\ p[2] <= Len(vouchers[p[1]].lines)
                        /\ IsOrder(vouchers[p[1]], orderType)
                        /\ PartyOf(vouchers[p[1]]) = partyId
                        /\ vouchers[p[1]].lines[p[2]].type = "inventory"
                        /\ vouchers[p[1]].lines[p[2]].itemId # Absent } }

UpsellListOk(partyId, list) ==
    /\ Len(list) <= 5
    /\ \A k \in 1..Len(list) : list[k].itemId \notin Purchased(partyId)
    /\ \A a, b \in 1..Len(list) : a # b => list[a].itemId # list[b].itemId
    /\ \A a, b \in 1..Len(list) : a < b => StageOf(list[a]) <= StageOf(list[b])
    /\ Cardinality({k \in 1..Len(list) : StageOf(list[k]) = 1}) <= 3
    /\ Cardinality({k \in 1..Len(list) : StageOf(list[k]) = 3}) <= 2

(* C27: the upsell list of every party pattern has at most 5 entries, none of them an
   item the party has purchased, none twice, co-purchase suggestions (at most 3) before
   category-fill suggestions before trending suggestions (at most 2) *)
C27_UpsellListShape ==
    upsells # Absent =>
        \A k \in 1..Len(upsells[1]) :
            UpsellListOk(upsells[1][k].partyLedgerId, upsells[1][k].upsellItems)

(* A list that was cut at five entries and has suggestions of all three kinds *)
C27_Witness ==
    /\ upsells # Absent
    /\ \E k \in 1..Len(upsells[1]) :
          LET list == upsells[1][k].upsellItems IN
          /\ upsells[1][k].partyLedgerId = "P"
          /\ Len(list) = 5
          /\ {StageOf(list[j]) : j \in 1..5} = {1, 2, 3}
          /\ Cardinality({j \in 1..5 : StageOf(list[j]) = 1}) = 3

-----------------------------------------------------------------------------
(* Repeated merges into the data store: mergeData of src/src/store/dataStore.ts *)

MaxMerges == 2

(* mergeData(d); its background task writes the predictions store only *)
MergeData ==
    \E d \in Batches :
        /\ Len(mergedBatches) < MaxMerges
        /\ LET store == mergeData(rawData, d, units, rates)
           IN /\ rawData' = store.rawData
              /\ data' = store.data
        /\ mergedBatches' = Append(mergedBatches, d)
        /\ UNCHANGED <<units, rates, pendingData, accepts, repeats>>
        /\ UNCHANGED otherThanStoreAndMerge

InitMerge ==
    /\ StoreIdle
    /\ MergeIdle
    /\ vouchers = <<>>
    /\ ReplayIdle
    /\ AgingIdle
    /\ ParseIdle
    /\ IngestIdle
    /\ PredictionIdle
    /\ DisplayIdle
    /\ ReconIdle
    /\ AcceptIdle
    /\ OverrideIdle
    /\ IndexedIdle
    /\ BodyIdle
    /\ UpsellIdle
    /\ TurnoverIdle

NextMerge == MergeData

SpecMerge == InitMerge /\ [][NextMerge]_vars

SortedByDate(vs) == \A a, b \in 1..Len(vs) : a < b => ~DateLess(vs[b].date, vs[a].date)

(* The batches that carry the voucherId *)
BatchesWith(id) == {k \in 1..Len(mergedBatches) : MapHas(mergedBatches[k].vouchers, id)}

MergedIds == UNION {{mergedBatches[k].vouchers[i].voucherId :
                        i \in 1..Len(mergedBatches[k].vouchers)} : k \in 1..Len(mergedBatches)}

(* Every merged voucherId is stored once, in the version of the batch merged last *)
StoreHoldsLatestVersions ==
    mergedBatches # <<>> =>
        /\ DistinctIds(rawData[1].vouchers)
        /\ \A id \in MergedIds :
              \E i \in 1..Len(rawData[1].vouchers) :
                  LET last == CHOOSE k \in BatchesWith(id) : \A j \in BatchesWith(id) : j <= k
                  IN /\ rawData[1].vouchers[i].voucherId = id
                     /\ \E n \in 1..Len(mergedBatches[last].vouchers) :
                           mergedBatches[last].vouchers[n] = rawData[1].vouchers[i]

(* C28: after any sequence of mergeData calls from an empty store the stored vouchers
   have pairwise distinct voucherIds, are in non-decreasing date order, contain every
   merged voucherId, and hold the version of the batch merged last *)
C28_MergedStoreIsSortedAndComplete ==
    /\ StoreHoldsLatestVersions
    /\ mergedBatches # <<>> => SortedByDate(rawData[1].vouchers)

StoreHoldsLatestVersionsWitness ==
    /\ Len(mergedBatches) = 2
    /\ Len(rawData[1].vouchers) = 3
    /\ \E i \in 1..3 : rawData[1].vouchers[i] = StoreVoucher("Sales", "1", Day2, 200)
    /\ \E n \in 1..Len(mergedBatches[1].vouchers) :
          mergedBatches[1].vouchers[n] = StoreVoucher("Sales", "1", Day2, 100)

(* From the second merge on the stored vouchers are in date order *)
SortedFromSecondMerge == Len(mergedBatches) >= 2 => SortedByDate(rawData[1].vouchers)

SortedFromSecondMergeWitness ==
    /\ Len(mergedBatches) = 2
    /\ ~SortedByDate(mergedBatches[1].vouchers)
    /\ Len(rawData[1].vouchers) = 3

FirstBatchKeptUnsorted ==
    /\ Len(mergedBatches) = 1
    /\ ~SortedByDate(rawData[1].vouchers)

-----------------------------------------------------------------------------
(* Item turnover: computeItemTurnover of src/src/engine/inventory.ts *)

(* The latest voucher date, of any voucher; Absent for no voucher *)
RECURSIVE LatestDate(_, _)
LatestDate(vs, latestDate) ==
    IF vs = <<>> THEN latestDate
    ELSE IF latestDate = Absent \/ DateLess(latestDate[1], Head(vs).date)
    THEN LatestDate(Tail(vs), Some(Head(vs).date))
    ELSE LatestDate(Tail(vs), latestDate)

(* new Date(endDate) is a UTC midnight; setMonth moves the local calendar month, a day
   the month does not have runs over into the next one, and the local wall-clock time is
   kept; toISOString().slice(0, 10) reads the UTC date.  When the end lies in winter time
   and the start in summer time the instant is 23:00Z of the day before *)
StartDate(endDate, months, tz) ==
    LET k == endDate[1] * 12 + (endDate[2] - 1) - months
        day == DayNumber(<<k \div 12, (k % 12) + 1, 1>>) + endDate[3] - 1
    IN IF ~InSummerTime(tz, DayNumber(endDate)) /\ InSummerTime(tz, day)
       THEN DateOfDay(day - 1)
       ELSE DateOfDay(day)

(* Variant of InPeriod: a voucher dated on the start date is left out *)
InPeriodAfterStart(v, startDate, endDate) ==
    DateLess(startDate, v.date) /\ ~DateLess(endDate, v.date)

(* The guards of the two passes over the vouchers *)
PrePeriod(v, startDate) ==
    ~(v.isCancelled \/ v.isOptional \/ ~DateLess(v.date, startDate))

InPeriod(v, startDate, endDate) ==
    ~(DateLess(v.date, startDate) \/ DateLess(endDate, v.date))

(* The in-period loop over the lines of one voucher *)
RECURSIVE TurnoverLines(_, _, _, _)
TurnoverLines(acc, v, lines, itm) ==
    IF lines = <<>> THEN acc
    ELSE LET line == Head(lines)
             qty == OrElse(line.qtyBase, 0)
             next ==
                 IF line.type # "inventory" \/ line.itemId # Some(itm.itemId) THEN acc
                 ELSE IF v.voucherType \in {"Sales", "Credit Note"}
                 THEN [acc EXCEPT !.totalOutQty = @ + qty, !.runningQty = @ - qty]
                 ELSE IF v.voucherType \in {"Purchase", "Debit Note"}
                 THEN [acc EXCEPT !.totalInQty = @ + qty, !.runningQty = @ + qty]
                 ELSE IF v.voucherType = "Stock Journal"
                 THEN IF qty > 0
                      THEN [acc EXCEPT !.totalInQty = @ + qty, !.runningQty = @ + qty]
                      ELSE [acc EXCEPT !.totalOutQty = @ + Abs(qty), !.runningQty = @ + qty]
                 ELSE acc
         IN TurnoverLines(next, v, Tail(lines), itm)

RECURSIVE InPeriodMovements(_, _, _, _, _)
InPeriodMovements(acc, vs, itm, startDate, endDate) ==
    IF vs = <<>> THEN acc
    ELSE LET v == Head(vs)
         IN IF v.isCancelled \/ v.isOptional \/ ~InPeriod(v, startDate, endDate)
            THEN InPeriodMovements(acc, Tail(vs), itm, startDate, endDate)
            ELSE InPeriodMovements(TurnoverLines(acc, v, v.lines, itm), Tail(vs), itm,
                                   startDate, endDate)

(* The quantity-based fields of the ItemTurnoverData of one item *)
ItemTurnover(itm, vs, months, startDate, endDate) ==
    LET openingQty ==
            ReplayVouchers(SelectSeq(vs, LAMBDA v : PrePeriod(v, startDate)), itm,
                           itm.openingQtyBase)
        moved == InPeriodMovements([totalOutQty |-> 0, totalInQty |-> 0,
                                    runningQty |-> openingQty],
                                   vs, itm, startDate, endDate)
    IN [itemId |-> itm.itemId,
        totalOutwardQty |-> moved.totalOutQty,
        totalInwardQty |-> moved.totalInQty,
        openingQty |-> openingQty,
        closingQty |-> moved.runningQty]

(* The results by item, with the period they were computed for; no result without a
   voucher *)
computeItemTurnover(items, vs, months, tz) ==
    LET latestDate == LatestDate(vs, Absent)
    IN IF latestDate = Absent THEN [results |-> EmptyMap]
       ELSE LET endDate == latestDate[1]
                startDate == StartDate(endDate, months, tz)
            IN [results |-> [id \in DOMAIN items |->
                                ItemTurnover(items[id], vs, months, startDate, endDate)],
                startDate |-> startDate,
                endDate |-> endDate]

-----------------------------------------------------------------------------
(* Inputs of the item turnover *)

MaxTurnoverVouchers == 4

TurnoverVoucher(vtype, number, date, cancelled, lines) ==
    CanonicalVoucher(vtype, number, date, 0, cancelled, FALSE, lines)

(* Vouchers before, on and after the start dates of periods of 3 and 12 months that end
   on 2024-11-15 or, with the cancelled voucher, on 2024-12-31 *)
TurnoverVouchers ==
    << TurnoverVoucher("Sales", "1", <<2024, 11, 15>>, FALSE, <<InventoryLine("A", Some(2))>>),
       TurnoverVoucher("Purchase", "2", <<2024, 8, 15>>, FALSE,
                       <<InventoryLine("A", Some(5)), InventoryLine("B", Some(1))>>),
       TurnoverVoucher("Stock Journal", "3", <<2024, 8, 14>>, FALSE,
                       <<InventoryLine("A", Some(-3)), InventoryLine("A", Some(1))>>),
       TurnoverVoucher("Credit Note", "4", <<2024, 5, 1>>, FALSE, <<InventoryLine("A", Some(1))>>),
       TurnoverVoucher("Purchase", "5", <<2023, 11, 15>>, FALSE, <<InventoryLine("A", Some(7))>>),
       TurnoverVoucher("Sales", "6", <<2024, 12, 31>>, TRUE, <<InventoryLine("A", Some(9))>>),
       TurnoverVoucher("Debit Note", "7", <<2024, 9, 30>>, FALSE, <<InventoryLine("A", Some(4))>>),
       TurnoverVoucher("Sales", "8", <<2024, 10, 1>>, FALSE, <<InventoryLine("B", Some(2))>>),
       TurnoverVoucher("Journal", "9", <<2024, 10, 2>>, FALSE, <<InventoryLine("A", Some(6))>>) >>

-----------------------------------------------------------------------------
(* Operations of the item turnover *)

ComputeItemTurnover ==
    /\ turnover = Absent
    /\ turnover' = Some(computeItemTurnover(turnoverItems, vouchers, periodMonths, timeZone))
    /\ UNCHANGED <<turnoverItems, periodMonths>>
    /\ UNCHANGED otherThanTurnover

InitTurnover ==
    /\ vouchers \in SubLists(TurnoverVouchers, MaxTurnoverVouchers)
    /\ turnoverItems = [id \in {"A", "B"} |-> CanonicalItem(id, IF id = "A" THEN 10 ELSE 0)]
    /\ periodMonths \in {3, 12}
    /\ turnover = Absent
    /\ timeZone \in TimeZones
    /\ itemMap = EmptyMap
    /\ orderType = "Sales"
    /\ predictions = Absent
    /\ newVouchers = <<>>
    /\ accuracy = Absent
    /\ currentDate = <<2024, 1, 1>>
    /\ ReplayIdle
    /\ AgingIdle
    /\ ParseIdle
    /\ StoreIdle
    /\ IngestIdle
    /\ DisplayIdle
    /\ ReconIdle
    /\ AcceptIdle
    /\ OverrideIdle
    /\ IndexedIdle
    /\ BodyIdle
    /\ UpsellIdle
    /\ MergeIdle

NextTurnover == ComputeItemTurnover

SpecTurnover == InitTurnover /\ [][NextTurnover]_vars

-----------------------------------------------------------------------------
(* Properties of the item turnover *)

LiveVouchers == {i \in 1..Len(vouchers) : ~vouchers[i].isCancelled /\ ~vouchers[i].isOptional}

(* C30: every live voucher is counted in exactly one of the two passes, and for every
   item of the result closingQty is getCurrentStock(item, vouchers) and is
   openingQty + totalInwardQty - totalOutwardQty *)
C30_TurnoverCountsEachVoucherOnce ==
    (turnover # Absent /\ DOMAIN turnover[1].results # {}) =>
        /\ \A i \in LiveVouchers :
              PrePeriod(vouchers[i], turnover[1].startDate)
                  # InPeriod(vouchers[i], turnover[1].startDate, turnover[1].endDate)
        /\ \A id \in DOMAIN turnover[1].results :
              LET r == turnover[1].results[id] IN
              /\ r.closingQty = getCurrentStock(turnoverItems[id], vouchers)
              /\ r.closingQty = r.openingQty + r.totalInwardQty - r.totalOutwardQty

(* A voucher dated on the start date, one before it and one inside the period *)
C30_Witness ==
    /\ turnover # Absent
    /\ DOMAIN turnover[1].results = {"A", "B"}
    /\ \E i, j, k \in LiveVouchers :
          /\ vouchers[i].date = turnover[1].startDate
          /\ DateLess(vouchers[j].date, turnover[1].startDate)
          /\ DateLess(turnover[1].startDate, vouchers[k].date)
    /\ turnover[1].results["A"].openingQty # turnoverItems["A"].openingQtyBase
    /\ turnover[1].results["A"].closingQty # turnover[1].results["A"].openingQty

====
